---- MODULE Spec2Model ----
(***************************************************************************)
(* vuescrape: one export pass (main.run) over the Emporia Vue device tree, *)
(* exporting each channel's history (main.exportHistory) through the       *)
(* paginator (vueclient.Client.GetHistory) into VictoriaMetrics            *)
(* (vmclient.Client.Query / Push / Pusher).                                *)
(*                                                                         *)
(* Instants and durations are integers in milliseconds.  A float64 sample  *)
(* value is an integer number of thousandths, so the value of a            *)
(* timestamp() query (seconds, as a float) and the instant it denotes (in  *)
(* milliseconds) are the same number, and int64(v) is v \div 1000.         *)
(***************************************************************************)
EXTENDS Integers, Sequences, FiniteSets, TLC

(***************************************************************************)
(* Bounds of the model.                                                    *)
(***************************************************************************)
\* Number of times the external scheduler invokes the pass.
MaxPasses == 2
\* Number of failures and off-contract answers the environment may give.
MaxFaults == 1

(***************************************************************************)
(* Time helpers (package time).                                            *)
(***************************************************************************)
Minutes(n) == n * 60 * 1000

\* time.Time{}: the zero instant, for which IsZero() holds.
ZeroTime == -1

\* time.Unix(sec, 0)
TimeUnix(sec) == sec * 1000

\* int64(f) of a float64 given in thousandths: truncation toward zero
\* (all values of the model are >= 0).
Int64(f) == f \div 1000

\* t.UTC().Format(time.RFC3339): whole seconds, the fraction is dropped.
FormatRFC3339(t) == (t \div 1000) * 1000

Min(a, b) == IF a < b THEN a ELSE b

Max(a, b) == IF a > b THEN a ELSE b

SetMax(S) == CHOOSE x \in S : \A y \in S : y <= x

(***************************************************************************)
(* vueclient.Scale                                                         *)
(***************************************************************************)
Scale1Second == "1S"

Scale1Minute == "1MIN"

Scale1Hour == "1H"

Scale1Day == "1D"

Scale1Week == "1W"

Scale1Month == "1MON"

Sscale1Year == "1Y"

Scales == {Scale1Second, Scale1Minute, Scale1Hour, Scale1Day, Scale1Week,
           Scale1Month, Sscale1Year}

\* The keys of the map scaleDurations.
DurationScales == {Scale1Second, Scale1Minute, Scale1Hour, Scale1Day, Scale1Week}

scaleDurations(s) ==
    CASE s = Scale1Second -> 1000
      [] s = Scale1Minute -> 60 * 1000
      [] s = Scale1Hour   -> 60 * 60 * 1000
      [] s = Scale1Day    -> 24 * 60 * 60 * 1000
      [] s = Scale1Week   -> 7 * 24 * 60 * 60 * 1000

\* The keys of the map scalePageSize.
PageSizeScales == {Scale1Second, Scale1Minute, Scale1Hour}

scalePageSize(s) ==
    CASE s = Scale1Second -> 4000 * 1000
      [] s = Scale1Minute -> 800 * 60 * 1000
      [] s = Scale1Hour   -> 800 * 60 * 60 * 1000

\* Scale.Duration: defined (no panic) for the keys of scaleDurations.
Duration(s) == scaleDurations(s)

\* Scale.PageSize: defined (no panic) for the keys of scalePageSize.
PageSize(s) == scalePageSize(s)

(***************************************************************************)
(* vueclient.Device / vueclient.Channel                                    *)
(***************************************************************************)
Channel(name, gid, num) ==
    [Name |-> name, DeviceGID |-> gid, ChannelNum |-> num, ChannelMultiplier |-> 1]

Device(gid, chans, subdevs) ==
    [DeviceGID |-> gid, Channels |-> chans, Devices |-> subdevs]

RECURSIVE Concat(_)
Concat(ss) == IF ss = <<>> THEN <<>> ELSE Head(ss) \o Concat(Tail(ss))

\* run's two nested loops over devs: a device's own channels, then the
\* channels of each of its sub-devices, device by device.
SubdevChannels(dev) ==
    Concat([j \in 1..Len(dev.Devices) |-> dev.Devices[j].Channels])

ChannelOrder(devs) ==
    Concat([i \in 1..Len(devs) |-> devs[i].Channels \o SubdevChannels(devs[i])])

(***************************************************************************)
(* vmclient: Metric, Sample, Series and Client.Query                       *)
(***************************************************************************)
\* resultType
resultTypeMatrix == "matrix"

resultTypeVector == "vector"

resultTypeScalar == "scalar"

resultTypeString == "string"

\* Sample.UnmarshalJSON of a well-formed document [ts, "val"]: the
\* timestamp is read as epoch seconds and truncated, the value parsed.
SampleUnmarshalJSON(doc) ==
    [Value |-> doc.val, Timestamp |-> TimeUnix(Int64(doc.ts))]

NoResult == [err |-> TRUE, kind |-> "none", sample |-> <<>>, series |-> <<>>]

\* ClientQuery taking a failed request for an empty vector.
ClientQuery_FailAsEmpty(resp) ==
    IF resp.status # "ok"
    THEN [err |-> FALSE, kind |-> "series", sample |-> <<>>, series |-> <<>>]
    ELSE IF resp.resultType = resultTypeScalar
    THEN [err |-> FALSE, kind |-> "sample",
          sample |-> <<SampleUnmarshalJSON(resp.result[1])>>, series |-> <<>>]
    ELSE IF resp.resultType = resultTypeVector
    THEN [err |-> FALSE, kind |-> "series", sample |-> <<>>,
          series |-> [i \in 1..Len(resp.result) |->
                        [Metric  |-> resp.result[i].metric,
                         Samples |-> <<SampleUnmarshalJSON(resp.result[i].value)>>]]]
    ELSE NoResult

\* ClientQuery taking every result type it does not know for an empty vector.
ClientQuery_UnknownAsEmpty(resp) ==
    IF resp.status # "ok" THEN NoResult
    ELSE IF resp.resultType = resultTypeScalar
    THEN [err |-> FALSE, kind |-> "sample",
          sample |-> <<SampleUnmarshalJSON(resp.result[1])>>, series |-> <<>>]
    ELSE IF resp.resultType = resultTypeVector
    THEN [err |-> FALSE, kind |-> "series", sample |-> <<>>,
          series |-> [i \in 1..Len(resp.result) |->
                        [Metric  |-> resp.result[i].metric,
                         Samples |-> <<SampleUnmarshalJSON(resp.result[i].value)>>]]]
    ELSE [err |-> FALSE, kind |-> "series", sample |-> <<>>, series |-> <<>>]

\* Client.Query: (*Sample, nil) for a scalar, ([]Series, nil) for a vector,
\* each vector element becoming a Series of exactly one Sample; an error
\* for a failed request and for every other result type.
ClientQuery(resp) ==
    IF resp.status # "ok" THEN NoResult
    ELSE IF resp.resultType = resultTypeScalar
    THEN [err |-> FALSE, kind |-> "sample",
          sample |-> <<SampleUnmarshalJSON(resp.result[1])>>, series |-> <<>>]
    ELSE IF resp.resultType = resultTypeVector
    THEN [err |-> FALSE, kind |-> "series", sample |-> <<>>,
          series |-> [i \in 1..Len(resp.result) |->
                        [Metric  |-> resp.result[i].metric,
                         Samples |-> <<SampleUnmarshalJSON(resp.result[i].value)>>]]]
    ELSE NoResult

(***************************************************************************)
(* main.exportHistory: pure parts                                          *)
(***************************************************************************)
\* The labels the series selector of the resume query names (line 96).
SeriesSelector(ch, scale) ==
    [dev_gid |-> ch.DeviceGID, chan |-> ch.ChannelNum, scale |-> scale]

\* ResolveSince without the test of line 108.
ResolveSince_NoAfter(existing, since, scale) ==
    IF existing.kind = "series"
       /\ Len(existing.series) = 1
       /\ Len(existing.series[1].Samples) = 1
    THEN TimeUnix(Int64(existing.series[1].Samples[1].Value)) + Duration(scale)
    ELSE since

\* Lines 101-112: advance since past the last pushed sample.
ResolveSince(existing, since, scale) ==
    IF existing.kind = "series"
       /\ Len(existing.series) = 1
       /\ Len(existing.series[1].Samples) = 1
    THEN LET sample     == existing.series[1].Samples[1]
             lastSample == TimeUnix(Int64(sample.Value)) + Duration(scale)
         IN  IF lastSample > since THEN lastSample ELSE since
    ELSE since

\* Line 107 is reached, and scale.Duration() panics there.
ResolveSincePanics(existing, scale) ==
    /\ existing.kind = "series"
    /\ Len(existing.series) = 1
    /\ Len(existing.series[1].Samples) = 1
    /\ scale \notin DurationScales

\* Lines 119-134: the label "name" of the pushed Metric.
LabelName(ch) == ch.Name

SeriesMetric(ch, scale) ==
    [Name   |-> "vue_kwh",
     Labels |-> [dev_gid   |-> ch.DeviceGID,
                 chan      |-> ch.ChannelNum,
                 name      |-> LabelName(ch),
                 chan_mult |-> ch.ChannelMultiplier,
                 scale     |-> scale]]

\* Line 150: the flush test on the buffered samples.
FlushThreshold == 1000

\* The flush test with >= for >.
ShouldFlush_AtThreshold(n) == n >= FlushThreshold

ShouldFlush(n) == n > FlushThreshold

\* NextSlotStart advancing on slots that hold a value only.
NextSlotStart_SkipNull(start, s, scale) ==
    IF s = <<>> THEN start ELSE start + Duration(scale)

\* Line 143: the instant of the next slot.
NextSlotStart(start, s, scale) == start + Duration(scale)

\* AfterFlush keeping the flushed samples in the buffer.
AfterFlush_Keep(samples) == samples

\* Line 152: the buffer after a threshold flush.
AfterFlush(samples) == <<>>

(***************************************************************************)
(* vueclient.Client.GetHistory: pure parts                                 *)
(***************************************************************************)
\* PageEnd without the clamp to end.
PageEnd_NoClamp(start, end, scale) == start + PageSize(scale)

\* PageEnd with pages of half the scale's page size.
PageEnd_HalfPage(start, end, scale) ==
    IF end > start + PageSize(scale) \div 2 THEN start + PageSize(scale) \div 2 ELSE end

\* Lines 133-136: the end of the page that starts at start.
PageEnd(start, end, scale) ==
    IF end > start + PageSize(scale) THEN start + PageSize(scale) ELSE end

\* GetHistoryFailed handing back what the earlier pages gave.
GetHistoryFailed_Partial(inst, samples) ==
    [inst |-> inst, samples |-> samples, err |-> TRUE]

\* Line 139: what GetHistory returns when a page request fails.
GetHistoryFailed(inst, samples) ==
    [inst |-> ZeroTime, samples |-> <<>>, err |-> TRUE]

\* Line 147
GetHistoryDone(inst, samples) ==
    [inst |-> inst, samples |-> samples, err |-> FALSE]

(***************************************************************************)
(* State                                                                   *)
(***************************************************************************)
VARIABLES
    \* The environment.
    tree,       \* the device tree the upstream API reports
    lookback,   \* the flag -lookback
    nullEvery,  \* upstream has no data for every nullEvery-th slot (0: none)
    anchoring,  \* how upstream places firstUsageInstant: "exact" or "floor"
    now,        \* the wall clock
    store,      \* VictoriaMetrics: Metric -> the set of stored timestamps
    faults,     \* failures and off-contract answers given so far
    pass,       \* the number of the current invocation
    \* main.run
    rPc,        \* "start", "loop", "returned", "crashed"
    rErr,       \* whether run returned an error
    devs, until, since, scale,
    chIdx,      \* the position of run's loops in ChannelOrder(devs)
    \* main.exportHistory
    ePc,        \* "idle", "query", "push", "history", "history_ret", "batch",
                \* "close", "ret", "crashed"
    eSince,     \* the parameter since, as advanced by lines 101-112
    eSeries,    \* series
    eStart, eFound, eIdx, eC,
    eRet,       \* "none", "nil" or "err": the value returned
    pusher,     \* "none", "open", "broken" (a write failed), "closed"
    \* vueclient.Client.GetHistory
    gStart, gInst, gSamples,
    gRet,       \* the triple GetHistory returned
    \* Observations (not read by the program).
    opLog,      \* the pass's operations on store and upstream, in order
    eQuery,     \* the resume query of this call: the kind of answer, the
                \* answer, since before it, the last instant stored before it
    pages,      \* the GetHistoryPage calls of this call, in order
    pushes,     \* the Pusher.Push calls of this call, in order
    reported,   \* the count of the log line 158 (-1: not logged)
    firstInst,  \* the first-sample instant GetHistory returned to this call
    eFailed     \* an operation of this call failed

envVars == <<tree, lookback, nullEvery, anchoring, now, store, faults, pass>>

runVars == <<rPc, rErr, devs, until, since, scale, chIdx>>

exportVars == <<ePc, eSince, eSeries, eStart, eFound, eIdx, eC, eRet, pusher>>

historyVars == <<gStart, gInst, gSamples, gRet>>

obsVars == <<opLog, eQuery, pages, pushes, reported, firstInst, eFailed>>

\* The libraries of the repository, each also run on its own below.
VARIABLES
    \* vueclient.Atom[*Token]
    aV,         \* a.v
    aWatchers,  \* a.watchers
    aMu,        \* a.mu: the writer holding it and the readers holding it
    aPc,        \* where each goroutine is in Load, Reset or Watch
    aArg,       \* the argument of the goroutine's call
    aRes,       \* what the goroutine's call read or returns
    aOld,       \* Reset's v after the swap of line 26
    aK,         \* the position of Reset's loop over a.watchers
    aNext,      \* the number of values handed to Reset so far, plus one
    aNextW,     \* the number of functions handed to Watch so far, plus one
    \* Observations of the Atom.
    aRix,       \* the number of the swap the goroutine's Reset made
    aResets,    \* the swaps, in order, each with the watchers registered then
    aCalls,     \* the calls of watchers, in order
    \* vueclient.CognitoTokenSource and cognitoAuthTransport
    tMu,        \* the goroutine holding c.mu
    tPc,        \* where each goroutine is in Token()
    tTok,       \* Token()'s local tok
    tRet,       \* what Token() returned
    tLog,       \* observation: what each call of Token() did, in order
    authFunc,   \* c.AuthFunc: "nil", or a function that gives "ok" or "err"
    clock,      \* the wall clock of the token's expiry
    \* vueclient.throttledTransport
    lim,        \* the tokens the rate.Limiter holds
    qPc,        \* where each request is in RoundTrip
    qCtx,       \* the request's context
    qLog,       \* observation: what was done for each request, in order
    \* vmclient: the JSON codecs
    cPc, cIn, cWire, cOut

atomVars ==
    <<aV, aWatchers, aMu, aPc, aArg, aRes, aOld, aK, aNext, aNextW, aRix, aResets,
      aCalls>>

tokenVars == <<tMu, tPc, tTok, tRet, tLog, authFunc, clock>>

transportVars == <<lim, qPc, qCtx, qLog>>

codecVars == <<cPc, cIn, cWire, cOut>>

libVars == <<atomVars, tokenVars, transportVars, codecVars>>

programVars == <<envVars, runVars, exportVars, historyVars, obsVars>>

notAtomVars == <<programVars, tokenVars, transportVars, codecVars>>

vars == <<envVars, runVars, exportVars, historyVars, obsVars, libVars>>

(***************************************************************************)
(* vueclient.Token                                                         *)
(***************************************************************************)
\* A Token: the access token (0 for ""), the refresh token, the expiry
\* (0 for the zero time) and the identity token.
Tok(access, refresh, expiry) ==
    [AccessToken |-> access, RefreshToken |-> refresh, Expiry |-> expiry,
     IDToken |-> access]

ZeroToken == Tok(0, "", 0)

\* The argument of Watch: the function numbered w.
Func(w) == [func |-> w]

\* The goroutines that use an Atom directly, the requests that go through
\* the client's transport, and both.
Threads == {"t1", "t2", "t3"}

Requests == {"r1", "r2"}

Procs == Threads \cup Requests

\* The libraries at rest, nothing called: the Atom holds the token held, the
\* token source has the credential callback af.
LibWith(held, af) ==
    /\ aV = held /\ aWatchers = <<>>
    /\ aMu = [writer |-> "none", readers |-> {}]
    /\ aPc = [p \in Procs |-> "idle"]
    /\ aArg = [p \in Procs |-> ZeroToken]
    /\ aRes = [p \in Procs |-> ZeroToken]
    /\ aOld = [p \in Procs |-> ZeroToken]
    /\ aK = [p \in Procs |-> 1]
    /\ aNext = 1 /\ aNextW = 1
    /\ aRix = [p \in Procs |-> 0]
    /\ aResets = <<>> /\ aCalls = <<>>
    /\ tMu = "none"
    /\ tPc = [p \in Procs |-> "idle"]
    /\ tTok = [p \in Procs |-> ZeroToken]
    /\ tRet = [p \in Procs |-> [tok |-> ZeroToken, err |-> FALSE]]
    /\ tLog = [p \in Procs |-> <<>>]
    /\ authFunc = af
    /\ clock = 0
    /\ lim = 1
    /\ qPc = [p \in Procs |-> "idle"]
    /\ qCtx = [p \in Procs |-> "background"]
    /\ qLog = [p \in Procs |-> <<>>]
    /\ cPc = "idle" /\ cIn = <<>> /\ cWire = <<>> /\ cOut = <<>>

LibIdle == LibWith(ZeroToken, "nil")

(***************************************************************************)
(* The environment: the upstream API                                       *)
(***************************************************************************)
\* The usage upstream holds for the slot at instant t: a *float64, <<>>
\* for nil (no data) and <<v>> for the value v.
UsageAt(t, d) ==
    IF nullEvery > 0 /\ (t \div d) % nullEvery = 0
    THEN <<>>
    ELSE <<((t \div d) % 7) + 1>>

\* The answer to getChartUsage for the page start..end (GetHistoryPage
\* lines 157-158 send both as RFC3339): the slots from the anchor up to
\* end, the anchor being the requested start or the slot boundary before it.
UpstreamPage(start, end, sc) ==
    LET d      == Duration(sc)
        from   == FormatRFC3339(start)
        to     == FormatRFC3339(end)
        anchor == IF anchoring = "exact" THEN from ELSE (from \div d) * d
        n      == IF to > anchor THEN (to - anchor + d - 1) \div d ELSE 0
    IN  [inst    |-> anchor,
         samples |-> [i \in 1..n |-> UsageAt(anchor + (i - 1) * d, d)]]

(***************************************************************************)
(* The environment: the store                                              *)
(***************************************************************************)
OkResp(rt, result) == [status |-> "ok", resultType |-> rt, result |-> result]

FailResp == [status |-> "fail", resultType |-> "", result |-> <<>>]

\* The wire form of a query sample: [epoch seconds, "value"].
WireSample(ts, val) == [ts |-> ts, val |-> val]

Matches(m, sel) ==
    /\ m.Name = "vue_kwh"
    /\ m.Labels.dev_gid = sel.dev_gid
    /\ m.Labels.chan = sel.chan
    /\ m.Labels.scale = sel.scale

\* The stored samples a lookbehind window ending now selects; the window is
\* taken closed at both ends, the convention that selects the most.
InWindow(m, window) == {t \in store[m] : t >= now - window /\ t <= now}

RECURSIVE SetToSeq(_)
SetToSeq(S) ==
    IF S = {} THEN <<>>
    ELSE LET x == CHOOSE x \in S : TRUE IN <<x>> \o SetToSeq(S \ {x})

\* timestamp(sel[window]) evaluated now: one element per stored series
\* that matches and has a sample in the window, its value the instant of
\* the last such sample, in seconds.
StoreVector(sel, window) ==
    LET ms == SetToSeq({m \in DOMAIN store :
                          Matches(m, sel) /\ InWindow(m, window) # {}})
    IN  [i \in 1..Len(ms) |->
           [metric |-> ms[i],
            value  |-> WireSample(now, SetMax(InWindow(ms[i], window)))]]

\* The kinds of answer outside that contract.
OtherAnswers ==
    {"fail", "scalar", "matrix", "string", "unknown", "empty", "two",
     "one_before", "one_at", "one_after", "one_future"}

AnyMetric == [Name |-> "vue_kwh", Labels |-> [x |-> "y"]]

Answer(kind, sel, window, from, to) ==
    CASE kind = "store"      -> OkResp(resultTypeVector, StoreVector(sel, window))
      [] kind = "fail"       -> FailResp
      [] kind = "scalar"     -> OkResp(resultTypeScalar, <<WireSample(now, to)>>)
      [] kind = "matrix"     -> OkResp(resultTypeMatrix, <<>>)
      [] kind = "string"     -> OkResp(resultTypeString, <<>>)
      [] kind = "unknown"    -> OkResp("", <<>>)
      [] kind = "empty"      -> OkResp(resultTypeVector, <<>>)
      [] kind = "two"        ->
            OkResp(resultTypeVector,
                   <<[metric |-> AnyMetric, value |-> WireSample(now, to)],
                     [metric |-> AnyMetric, value |-> WireSample(now, to)]>>)
      [] kind = "one_before" ->
            OkResp(resultTypeVector,
                   <<[metric |-> AnyMetric,
                      value  |-> WireSample(now, from - Minutes(2))]>>)
      [] kind = "one_at"     ->
            OkResp(resultTypeVector,
                   <<[metric |-> AnyMetric,
                      value  |-> WireSample(now, FormatRFC3339(from) - Minutes(1))]>>)
      [] kind = "one_after"  ->
            OkResp(resultTypeVector,
                   <<[metric |-> AnyMetric,
                      value  |-> WireSample(now, from + 1500)]>>)
      [] kind = "one_future" ->
            OkResp(resultTypeVector,
                   <<[metric |-> AnyMetric,
                      value  |-> WireSample(now, to + Minutes(1))]>>)

\* Timestamp.UnixMilli() of Series.MarshalJSON; instants are milliseconds.
UnixMilli(t) == t

\* The import of one pushed Series line.
StoreImport(st, series) ==
    LET ts == {UnixMilli(series.Samples[i].Timestamp) : i \in 1..Len(series.Samples)}
        m  == series.Metric
    IN  IF m \in DOMAIN st
        THEN [st EXCEPT ![m] = @ \cup ts]
        ELSE (m :> ts) @@ st

LastStored(m) ==
    IF m \in DOMAIN store /\ store[m] # {} THEN SetMax(store[m]) ELSE ZeroTime

(***************************************************************************)
(* Initial states                                                          *)
(***************************************************************************)
Total == Channel("", 1, "1,2,3")

Kitchen == Channel("Kitchen", 1, "1")

Garage == Channel("", 2, "1,2,3")

Shed == Channel("Shed", 3, "1")

\* Device trees of the two levels the API reports.
SmallTrees ==
    { <<>>,
      <<Device(1, <<Total>>, <<>>)>>,
      <<Device(1, <<Total, Kitchen>>, <<Device(2, <<Garage>>, <<>>)>>)>>,
      <<Device(1, <<Kitchen>>, <<>>), Device(3, <<Shed>>, <<>>)>> }

NoSeries == [Metric |-> <<>>, Samples |-> <<>>]

NoQuery ==
    [kind |-> "none", from |-> ZeroTime, lastStored |-> ZeroTime, resp |-> FailResp]

NoReturn == [inst |-> ZeroTime, samples |-> <<>>, err |-> FALSE]

\* run and exportHistory before the pass starts.
Fresh ==
    /\ rPc = "start" /\ rErr = FALSE
    /\ devs = <<>> /\ until = ZeroTime /\ since = ZeroTime
    /\ scale = Scale1Minute /\ chIdx = 1
    /\ ePc = "idle" /\ eSince = ZeroTime /\ eSeries = NoSeries
    /\ eStart = ZeroTime /\ eFound = <<>> /\ eIdx = 1 /\ eC = 0
    /\ eRet = "none" /\ pusher = "none"
    /\ gStart = ZeroTime /\ gInst = ZeroTime /\ gSamples = <<>> /\ gRet = NoReturn
    /\ opLog = <<>> /\ eQuery = NoQuery /\ pages = <<>> /\ pushes = <<>>
    /\ reported = -1 /\ firstInst = ZeroTime /\ eFailed = FALSE

InitWith(trees, lookbacks, nows, patterns) ==
    /\ tree \in trees
    /\ lookback \in lookbacks
    /\ now \in nows
    /\ nullEvery \in patterns
    /\ anchoring \in {"exact", "floor"}
    /\ store = [m \in {} |-> {}]
    /\ faults = 0
    /\ pass = 1
    /\ Fresh
    /\ LibIdle

\* A pass over a few slots: 10:00.000 or 10:34.500 on the clock.
Init ==
    InitWith(SmallTrees, {0, 90 * 1000, Minutes(3)}, {Minutes(10), Minutes(10) + 34500},
             {0, 2})

(***************************************************************************)
(* main.run                                                                *)
(***************************************************************************)
\* Lines 68-74.
RunGetDevices ==
    /\ rPc = "start"
    /\ \/ /\ devs' = tree
          /\ until' = now
          /\ since' = now - lookback
          /\ scale' = Scale1Minute
          /\ chIdx' = 1
          /\ rPc' = "loop"
          /\ UNCHANGED <<rErr, faults>>
       \/ /\ faults < MaxFaults
          /\ faults' = faults + 1
          /\ rPc' = "returned"
          /\ rErr' = TRUE
          /\ UNCHANGED <<devs, until, since, scale, chIdx>>
    /\ UNCHANGED <<tree, lookback, nullEvery, anchoring, now, store, pass>>
    /\ UNCHANGED <<exportVars, historyVars, obsVars>>
    /\ UNCHANGED libVars

\* Lines 77 and 84: the call of exportHistory for the next channel.
RunCallExport ==
    /\ rPc = "loop" /\ ePc = "idle"
    /\ chIdx <= Len(ChannelOrder(devs))
    /\ ePc' = "query"
    /\ eSince' = since
    /\ eSeries' = NoSeries
    /\ eStart' = ZeroTime /\ eFound' = <<>> /\ eIdx' = 1 /\ eC' = 0
    /\ eRet' = "none" /\ pusher' = "none"
    /\ gStart' = ZeroTime /\ gInst' = ZeroTime /\ gSamples' = <<>> /\ gRet' = NoReturn
    /\ eQuery' = NoQuery /\ pages' = <<>> /\ pushes' = <<>>
    /\ reported' = -1 /\ firstInst' = ZeroTime /\ eFailed' = FALSE
    /\ UNCHANGED <<envVars, runVars, opLog>>
    /\ UNCHANGED libVars

\* The channel run's loops are at, and an operation done for it.
Ch == ChannelOrder(devs)[chIdx]

Op(kind) == [op |-> kind, ch |-> chIdx, channel |-> Ch]

\* RunContinues going on to the next channel after an error too.
RunContinues_Always(ret) == TRUE

\* Lines 77-79 and 84-86: whether the loops go on after a call.
RunContinues(ret) == ret # "err"

RunAfterExport ==
    /\ rPc = "loop" /\ ePc = "ret"
    /\ ePc' = "idle"
    /\ opLog' = Append(opLog, Op(IF eRet = "err" THEN "return err" ELSE "return nil"))
    /\ IF RunContinues(eRet)
       THEN /\ chIdx' = chIdx + 1
            /\ UNCHANGED <<rPc, rErr>>
       ELSE /\ rPc' = "returned"
            /\ rErr' = TRUE
            /\ UNCHANGED chIdx
    /\ UNCHANGED <<envVars, devs, until, since, scale>>
    /\ UNCHANGED <<eSince, eSeries, eStart, eFound, eIdx, eC, eRet, pusher>>
    /\ UNCHANGED <<historyVars, eQuery, pages, pushes, reported, firstInst, eFailed>>
    /\ UNCHANGED libVars

\* Line 90.
RunReturn ==
    /\ rPc = "loop" /\ ePc = "idle"
    /\ chIdx > Len(ChannelOrder(devs))
    /\ rPc' = "returned"
    /\ rErr' = FALSE
    /\ UNCHANGED <<envVars, devs, until, since, scale, chIdx>>
    /\ UNCHANGED <<exportVars, historyVars, obsVars>>
    /\ UNCHANGED libVars


(***************************************************************************)
(* vmclient.Pusher                                                         *)
(***************************************************************************)
\* What a write to the stream can do: succeed, or fail (the request has
\* ended and closed the pipe); once a write failed, every later one fails.
PushOutcomes ==
    IF pusher = "broken" THEN {"err"}
    ELSE {"ok"} \cup (IF faults < MaxFaults THEN {"err"} ELSE {})

\* Pusher.Push(&series) as exportHistory calls it (lines 151 and 156): the
\* error it returns is not looked at.
PusherPush(series, outcome) ==
    /\ pushes' = Append(pushes, [series |-> series, ok |-> outcome = "ok"])
    /\ opLog' = Append(opLog, Op("push"))
    /\ store' = IF outcome = "ok" THEN StoreImport(store, series) ELSE store
    /\ pusher' = IF outcome = "ok" THEN pusher ELSE "broken"
    /\ faults' = IF outcome = "err" /\ pusher # "broken" THEN faults + 1 ELSE faults
    /\ eFailed' = (eFailed \/ outcome = "err")

(***************************************************************************)
(* main.exportHistory                                                      *)
(***************************************************************************)
\* Lines 96-112: the resume query and the advance of since.
ExportQuery ==
    /\ rPc = "loop" /\ ePc = "query"
    /\ \E kind \in {"store"} \cup (IF faults < MaxFaults THEN OtherAnswers ELSE {}) :
          LET window   == until - eSince
              resp     == Answer(kind, SeriesSelector(Ch, scale), window, eSince, until)
              existing == ClientQuery(resp)
          IN  /\ faults' = IF kind = "store" THEN faults ELSE faults + 1
              /\ eQuery' = [kind |-> kind, from |-> eSince,
                            lastStored |-> LastStored(SeriesMetric(Ch, scale)),
                            resp |-> resp]
              /\ IF existing.err
                 THEN /\ ePc' = "ret"
                      /\ eRet' = "err"
                      /\ eFailed' = TRUE
                      /\ UNCHANGED <<eSince, rPc>>
                 ELSE IF ResolveSincePanics(existing, scale)
                 THEN /\ ePc' = "crashed"
                      /\ rPc' = "crashed"
                      /\ eFailed' = TRUE
                      /\ UNCHANGED <<eSince, eRet>>
                 ELSE /\ ePc' = "push"
                      /\ eSince' = ResolveSince(existing, eSince, scale)
                      /\ UNCHANGED <<eRet, eFailed, rPc>>
    /\ opLog' = Append(opLog, Op("query"))
    /\ UNCHANGED <<tree, lookback, nullEvery, anchoring, now, store, pass>>
    /\ UNCHANGED <<rErr, devs, until, since, scale, chIdx, historyVars>>
    /\ UNCHANGED <<eSeries, eStart, eFound, eIdx, eC, pusher, pages, pushes, reported,
                   firstInst>>
    /\ UNCHANGED libVars

\* Lines 113-136: vm.Push() opens the import stream (it returns no error),
\* the series is set up, and GetHistory is entered.
ExportOpenPush ==
    /\ rPc = "loop" /\ ePc = "push"
    /\ pusher' = "open"
    /\ eSeries' = [Metric |-> SeriesMetric(Ch, scale), Samples |-> <<>>]
    /\ ePc' = "history"
    /\ gStart' = eSince /\ gInst' = ZeroTime /\ gSamples' = <<>>
    /\ opLog' = Append(opLog, Op("stream"))
    /\ UNCHANGED <<envVars, runVars, gRet>>
    /\ UNCHANGED <<eSince, eStart, eFound, eIdx, eC, eRet>>
    /\ UNCHANGED <<eQuery, pages, pushes, reported, firstInst, eFailed>>
    /\ UNCHANGED libVars

\* GetHistory lines 132-146: one turn of the page loop; scale.PageSize()
\* panics at line 134 for a scale that scalePageSize does not hold.
GetHistoryPage ==
    /\ rPc = "loop" /\ ePc = "history"
    /\ gStart # until
    /\ IF scale \notin PageSizeScales
       THEN /\ ePc' = "crashed"
            /\ rPc' = "crashed"
            /\ eFailed' = TRUE
            /\ UNCHANGED <<faults, gRet, gStart, gInst, gSamples, pages, opLog>>
       ELSE /\ LET pageEnd == PageEnd(gStart, until, scale)
               IN  \/ /\ LET page == UpstreamPage(gStart, pageEnd, scale)
                         IN  /\ gInst' = IF gInst = ZeroTime THEN page.inst ELSE gInst
                             /\ gSamples' = gSamples \o page.samples
                      /\ gStart' = pageEnd
                      /\ pages' = Append(pages, [start |-> gStart, end |-> pageEnd,
                                                 ok |-> TRUE])
                      /\ UNCHANGED <<faults, gRet, ePc, eFailed>>
                   \/ /\ faults < MaxFaults
                      /\ faults' = faults + 1
                      /\ pages' = Append(pages, [start |-> gStart, end |-> pageEnd,
                                                 ok |-> FALSE])
                      /\ gRet' = GetHistoryFailed(gInst, gSamples)
                      /\ gInst' = ZeroTime /\ gSamples' = <<>>
                      /\ ePc' = "history_ret"
                      /\ eFailed' = TRUE
                      /\ UNCHANGED gStart
            /\ opLog' = Append(opLog, Op("page"))
            /\ UNCHANGED rPc
    /\ UNCHANGED <<tree, lookback, nullEvery, anchoring, now, store, pass>>
    /\ UNCHANGED <<rErr, devs, until, since, scale, chIdx>>
    /\ UNCHANGED <<eSince, eSeries, eStart, eFound, eIdx, eC, eRet, pusher>>
    /\ UNCHANGED <<eQuery, pushes, reported, firstInst>>
    /\ UNCHANGED libVars

\* GetHistory lines 132 and 147: the cursor has reached end.
GetHistoryReturn ==
    /\ rPc = "loop" /\ ePc = "history"
    /\ gStart = until
    /\ gRet' = GetHistoryDone(gInst, gSamples)
    /\ gInst' = ZeroTime /\ gSamples' = <<>>
    /\ ePc' = "history_ret"
    /\ UNCHANGED <<envVars, runVars, obsVars>>
    /\ UNCHANGED <<eSince, eSeries, eStart, eFound, eIdx, eC, eRet, pusher>>
    /\ UNCHANGED gStart
    /\ UNCHANGED libVars

\* Lines 136-140.
ExportAfterHistory ==
    /\ rPc = "loop" /\ ePc = "history_ret"
    /\ IF gRet.err
       THEN /\ ePc' = "close"
            /\ eRet' = "err"
            /\ UNCHANGED <<eStart, eFound, eIdx, eC>>
       ELSE /\ ePc' = "batch"
            /\ eStart' = gRet.inst
            /\ eFound' = gRet.samples
            /\ eIdx' = 1
            /\ eC' = 0
            /\ UNCHANGED eRet
    /\ firstInst' = gRet.inst
    /\ gRet' = NoReturn
    /\ UNCHANGED <<envVars, runVars, gStart, gInst, gSamples>>
    /\ UNCHANGED <<opLog, eQuery, pages, pushes, reported, eFailed>>
    /\ UNCHANGED <<eSince, eSeries, pusher>>
    /\ UNCHANGED libVars

\* Lines 141-154: one turn of the loop over found.
ExportBatchStep ==
    /\ rPc = "loop" /\ ePc = "batch"
    /\ eIdx <= Len(eFound)
    /\ LET s  == eFound[eIdx]
           ts == eStart
       IN  /\ eStart' = NextSlotStart(eStart, s, scale)
           /\ eIdx' = eIdx + 1
           /\ IF s = <<>>
              THEN UNCHANGED <<eSeries, eC, pushes, opLog, store, pusher, faults, eFailed>>
              ELSE LET sample  == [Value |-> s[1], Timestamp |-> ts]
                       samples == Append(eSeries.Samples, sample)
                   IN  /\ eC' = eC + 1
                       /\ IF ShouldFlush(Len(samples))
                          THEN /\ \E outcome \in PushOutcomes :
                                     PusherPush([eSeries EXCEPT !.Samples = samples],
                                                outcome)
                               /\ eSeries' = [eSeries EXCEPT !.Samples = AfterFlush(samples)]
                          ELSE /\ eSeries' = [eSeries EXCEPT !.Samples = samples]
                               /\ UNCHANGED <<pushes, opLog, store, pusher, faults,
                                              eFailed>>
    /\ UNCHANGED <<tree, lookback, nullEvery, anchoring, now, pass>>
    /\ UNCHANGED <<runVars, historyVars>>
    /\ UNCHANGED <<ePc, eSince, eFound, eRet, eQuery, pages, reported, firstInst>>
    /\ UNCHANGED libVars

\* Lines 155-159: the flush of the remainder, the log line, return nil.
ExportFinalFlush ==
    /\ rPc = "loop" /\ ePc = "batch"
    /\ eIdx > Len(eFound)
    /\ IF Len(eSeries.Samples) > 0
       THEN \E outcome \in PushOutcomes : PusherPush(eSeries, outcome)
       ELSE UNCHANGED <<pushes, opLog, store, pusher, faults, eFailed>>
    /\ reported' = eC
    /\ eRet' = "nil"
    /\ ePc' = "close"
    /\ UNCHANGED <<tree, lookback, nullEvery, anchoring, now, pass>>
    /\ UNCHANGED <<runVars, historyVars>>
    /\ UNCHANGED <<eSince, eSeries, eStart, eFound, eIdx, eC, eQuery, pages, firstInst>>
    /\ UNCHANGED libVars

\* Line 117, the deferred pusher.Close(): Close joins the errors of the
\* gzip writer, the pipe and the request; exportHistory drops its result.
ExportClose ==
    /\ rPc = "loop" /\ ePc = "close"
    /\ \E outcome \in PushOutcomes :
          /\ faults' = IF outcome = "err" /\ pusher # "broken" THEN faults + 1 ELSE faults
          /\ eFailed' = (eFailed \/ outcome = "err")
    /\ pusher' = "closed"
    /\ ePc' = "ret"
    /\ opLog' = Append(opLog, Op("close"))
    /\ UNCHANGED <<tree, lookback, nullEvery, anchoring, now, store, pass>>
    /\ UNCHANGED <<runVars, historyVars>>
    /\ UNCHANGED <<eSince, eSeries, eStart, eFound, eIdx, eC, eRet>>
    /\ UNCHANGED <<eQuery, pages, pushes, reported, firstInst>>
    /\ UNCHANGED libVars

\* Client.Push lines 108-109: when http.DefaultClient.Do fails, resp is nil
\* and resp.StatusCode panics in the request's goroutine: the process dies.
PushRequestPanics ==
    /\ rPc = "loop" /\ ePc \in {"history", "history_ret", "batch", "close"}
    /\ pusher \in {"open", "broken"}
    /\ faults < MaxFaults
    /\ faults' = faults + 1
    /\ rPc' = "crashed"
    /\ ePc' = "crashed"
    /\ eFailed' = TRUE
    /\ UNCHANGED <<tree, lookback, nullEvery, anchoring, now, store, pass>>
    /\ UNCHANGED <<rErr, devs, until, since, scale, chIdx>>
    /\ UNCHANGED <<eSince, eSeries, eStart, eFound, eIdx, eC, eRet, pusher>>
    /\ UNCHANGED <<historyVars, opLog, eQuery, pages, pushes, reported, firstInst>>
    /\ UNCHANGED libVars

(***************************************************************************)
(* The scheduler                                                           *)
(***************************************************************************)
\* cron invokes the program again, some time after the pass ended.
NextPass ==
    /\ rPc \in {"returned", "crashed"}
    /\ pass < MaxPasses
    /\ pass' = pass + 1
    /\ \E d \in {0, Minutes(1), Minutes(2) + 30 * 1000} : now' = now + d
    /\ rPc' = "start" /\ rErr' = FALSE
    /\ devs' = <<>> /\ until' = ZeroTime /\ since' = ZeroTime
    /\ scale' = Scale1Minute /\ chIdx' = 1
    /\ ePc' = "idle" /\ eSince' = ZeroTime /\ eSeries' = NoSeries
    /\ eStart' = ZeroTime /\ eFound' = <<>> /\ eIdx' = 1 /\ eC' = 0
    /\ eRet' = "none" /\ pusher' = "none"
    /\ gStart' = ZeroTime /\ gInst' = ZeroTime /\ gSamples' = <<>> /\ gRet' = NoReturn
    /\ opLog' = <<>> /\ eQuery' = NoQuery /\ pages' = <<>> /\ pushes' = <<>>
    /\ reported' = -1 /\ firstInst' = ZeroTime /\ eFailed' = FALSE
    /\ UNCHANGED <<tree, lookback, nullEvery, anchoring, store, faults>>
    /\ UNCHANGED libVars

\* One invocation of the program.
Pass ==
    \/ RunGetDevices
    \/ RunCallExport
    \/ RunAfterExport
    \/ RunReturn
    \/ ExportQuery
    \/ ExportOpenPush
    \/ GetHistoryPage
    \/ GetHistoryReturn
    \/ ExportAfterHistory
    \/ ExportBatchStep
    \/ ExportFinalFlush
    \/ ExportClose
    \/ PushRequestPanics

Next == Pass \/ NextPass

Spec == Init /\ [][Next]_vars

(***************************************************************************)
(* One pass over a long window: one channel, a lookback of up to several   *)
(* pages and several batches, 50:34.500 on the clock.                      *)
(***************************************************************************)
LongCases ==
    { <<Minutes(120), 0, "exact">>,  <<Minutes(120), 3, "floor">>,
      <<Minutes(801), 0, "exact">>,  <<Minutes(1600), 3, "exact">>,
      <<Minutes(1600), 0, "floor">>, <<Minutes(2500), 0, "exact">>,
      <<Minutes(2500), 3, "floor">> }

InitLong ==
    /\ InitWith({<<Device(1, <<Total>>, <<>>)>>}, {c[1] : c \in LongCases},
                {Minutes(3000) + 34500}, {0, 3})
    /\ <<lookback, nullEvery, anchoring>> \in LongCases

SpecLong == InitLong /\ [][Pass]_vars

(***************************************************************************)
(* One call of exportHistory with any scale, over no or three minutes,     *)
(* the store empty or holding one sample of the series, nothing failing.   *)
(* The page size of Scale1Hour is beyond the integers of the model         *)
(* checker, and it is left out.                                            *)
(***************************************************************************)
ScaleInputs == Scales \ {Scale1Hour}

InitScale ==
    /\ tree = <<Device(1, <<Total>>, <<>>)>>
    /\ lookback \in {0, Minutes(3)}
    /\ now = Minutes(10)
    /\ nullEvery = 0 /\ anchoring = "exact"
    /\ scale \in ScaleInputs
    /\ store \in { [m \in {} |-> {}],
                   [m \in {SeriesMetric(Total, scale)} |-> {now - Minutes(1)}] }
    /\ faults = MaxFaults /\ pass = 1
    /\ rPc = "loop" /\ rErr = FALSE
    /\ devs = tree /\ until = now /\ since = now - lookback /\ chIdx = 1
    /\ ePc = "query" /\ eSince = since /\ eSeries = NoSeries
    /\ eStart = ZeroTime /\ eFound = <<>> /\ eIdx = 1 /\ eC = 0
    /\ eRet = "none" /\ pusher = "none"
    /\ gStart = ZeroTime /\ gInst = ZeroTime /\ gSamples = <<>> /\ gRet = NoReturn
    /\ opLog = <<>> /\ eQuery = NoQuery /\ pages = <<>> /\ pushes = <<>>
    /\ reported = -1 /\ firstInst = ZeroTime /\ eFailed = FALSE
    /\ LibIdle

ExportCall ==
    \/ ExportQuery
    \/ ExportOpenPush
    \/ GetHistoryPage
    \/ GetHistoryReturn
    \/ ExportAfterHistory
    \/ ExportBatchStep
    \/ ExportFinalFlush
    \/ ExportClose

SpecScale == InitScale /\ [][ExportCall]_vars

(***************************************************************************)
(* vueclient.Atom                                                          *)
(***************************************************************************)
\* The calls made on an Atom used on its own.
MaxResets == 2

MaxWatchers == 2

\* sync.RWMutex: RLock waits while a writer holds the lock, Lock waits
\* while anyone holds it.
CanRLock_Always(mu) == TRUE

CanRLock(mu) == mu.writer = "none"

CanLock_IgnoreWriter(mu) == mu.readers = {}

CanLock(mu) == mu.writer = "none" /\ mu.readers = {}

\* Line 17.
AtomRLock(p) ==
    /\ aPc[p] = "load"
    /\ CanRLock(aMu)
    /\ aMu' = [aMu EXCEPT !.readers = @ \cup {p}]
    /\ aPc' = [aPc EXCEPT ![p] = "load_locked"]
    /\ UNCHANGED <<aV, aWatchers, aArg, aRes, aOld, aK, aNext, aNextW, aRix, aResets,
                   aCalls>>
    /\ UNCHANGED notAtomVars

\* Line 19: the value to return is read.
AtomLoadRead(p) ==
    /\ aPc[p] = "load_locked"
    /\ aRes' = [aRes EXCEPT ![p] = aV]
    /\ aPc' = [aPc EXCEPT ![p] = "load_read"]
    /\ UNCHANGED <<aV, aWatchers, aMu, aArg, aOld, aK, aNext, aNextW, aRix, aResets,
                   aCalls>>
    /\ UNCHANGED notAtomVars

\* Line 18, the deferred RUnlock; Load returns what it read.
AtomRUnlock(p) ==
    /\ aPc[p] = "load_read"
    /\ aMu' = [aMu EXCEPT !.readers = @ \ {p}]
    /\ aPc' = [aPc EXCEPT ![p] = "ret"]
    /\ UNCHANGED <<aV, aWatchers, aArg, aRes, aOld, aK, aNext, aNextW, aRix, aResets,
                   aCalls>>
    /\ UNCHANGED notAtomVars

\* Lines 24 and 36.
AtomLock(p) ==
    /\ aPc[p] \in {"reset", "watch"}
    /\ CanLock(aMu)
    /\ aMu' = [aMu EXCEPT !.writer = p]
    /\ aPc' = [aPc EXCEPT ![p] = IF aPc[p] = "reset" THEN "reset_locked"
                                                      ELSE "watch_locked"]
    /\ UNCHANGED <<aV, aWatchers, aArg, aRes, aOld, aK, aNext, aNextW, aRix, aResets,
                   aCalls>>
    /\ UNCHANGED notAtomVars

\* Line 26: v, a.v = a.v, v.
AtomSwap(p) ==
    /\ aPc[p] = "reset_locked"
    /\ aOld' = [aOld EXCEPT ![p] = aV]
    /\ aV' = aArg[p]
    /\ aK' = [aK EXCEPT ![p] = 1]
    /\ aRix' = [aRix EXCEPT ![p] = Len(aResets) + 1]
    /\ aResets' = Append(aResets, [by |-> p, old |-> aV, new |-> aArg[p],
                                   watchers |-> aWatchers])
    /\ aPc' = [aPc EXCEPT ![p] = "reset_notify"]
    /\ UNCHANGED <<aWatchers, aMu, aArg, aRes, aNext, aNextW, aCalls>>
    /\ UNCHANGED notAtomVars

\* What a registered function does with the Atom it watches: the functions
\* 11, 12 and 13 call Load, Reset and Watch on it, every other one leaves it
\* alone (as the one of main.go:53-58 does, which only writes a file).
WatcherCall(w) ==
    IF w = 11 THEN "load"
    ELSE IF w = 12 THEN "reset"
    ELSE IF w = 13 THEN "watch"
    ELSE "none"

\* Lines 28-30: one turn of the loop, w(v, a.v), with a function that
\* returns without calling the Atom.
AtomCallWatcher(p) ==
    /\ aPc[p] = "reset_notify"
    /\ aK[p] <= Len(aWatchers)
    /\ WatcherCall(aWatchers[aK[p]]) = "none"
    /\ aCalls' = Append(aCalls, [w |-> aWatchers[aK[p]], old |-> aOld[p], new |-> aV,
                                 reset |-> aRix[p]])
    /\ aK' = [aK EXCEPT ![p] = @ + 1]
    /\ UNCHANGED <<aV, aWatchers, aMu, aPc, aArg, aRes, aOld, aNext, aNextW, aRix,
                   aResets>>
    /\ UNCHANGED notAtomVars

\* Lines 25 and 31: the loop is done; return v and the deferred Unlock.
AtomResetUnlock(p) ==
    /\ aPc[p] = "reset_notify"
    /\ aK[p] > Len(aWatchers)
    /\ aMu' = [aMu EXCEPT !.writer = "none"]
    /\ aPc' = [aPc EXCEPT ![p] = "ret"]
    /\ aRes' = [aRes EXCEPT ![p] = aOld[p]]
    /\ aArg' = [aArg EXCEPT ![p] = ZeroToken]
    /\ aOld' = [aOld EXCEPT ![p] = ZeroToken]
    /\ aK' = [aK EXCEPT ![p] = 1]
    /\ aRix' = [aRix EXCEPT ![p] = 0]
    /\ UNCHANGED <<aV, aWatchers, aNext, aNextW, aResets, aCalls>>
    /\ UNCHANGED notAtomVars

\* Lines 37-38.
AtomAppendWatcher(p) ==
    /\ aPc[p] = "watch_locked"
    /\ aWatchers' = Append(aWatchers, aArg[p].func)
    /\ aMu' = [aMu EXCEPT !.writer = "none"]
    /\ aPc' = [aPc EXCEPT ![p] = "idle"]
    /\ aArg' = [aArg EXCEPT ![p] = ZeroToken]
    /\ UNCHANGED <<aV, aRes, aOld, aK, aNext, aNextW, aRix, aResets, aCalls>>
    /\ UNCHANGED notAtomVars

\* Lines 28-30 with a function that calls the Atom: w(v, a.v) runs on the
\* goroutine of Reset, inside its loop and under its write lock (line 24),
\* and enters Load (line 16), Reset (line 23) or Watch (line 35) of the same
\* Atom.  The goroutine is then at the RLock or Lock of the inner call while
\* aRix, aK and aOld still hold the frame of the outer Reset; sync.RWMutex
\* is not reentrant, so the inner call goes through AtomRLock or AtomLock
\* like any other.
AtomWatcherEnters(p) ==
    /\ aPc[p] = "reset_notify"
    /\ aK[p] <= Len(aWatchers)
    /\ WatcherCall(aWatchers[aK[p]]) # "none"
    /\ aCalls' = Append(aCalls, [w |-> aWatchers[aK[p]], old |-> aOld[p], new |-> aV,
                                 reset |-> aRix[p]])
    /\ aPc' = [aPc EXCEPT ![p] = WatcherCall(aWatchers[aK[p]])]
    /\ aArg' = [aArg EXCEPT ![p] =
                  IF WatcherCall(aWatchers[aK[p]]) = "reset" THEN aOld[p]
                  ELSE IF WatcherCall(aWatchers[aK[p]]) = "watch"
                       THEN Func(aWatchers[aK[p]])
                  ELSE @]
    /\ UNCHANGED <<aV, aWatchers, aMu, aRes, aOld, aK, aNext, aNextW, aRix, aResets>>
    /\ UNCHANGED notAtomVars

\* The steps inside the Atom, for the goroutines ps.
AtomStep(ps) ==
    \E p \in ps :
        \/ AtomRLock(p)
        \/ AtomLoadRead(p)
        \/ AtomRUnlock(p)
        \/ AtomLock(p)
        \/ AtomSwap(p)
        \/ AtomCallWatcher(p)
        \/ AtomResetUnlock(p)
        \/ AtomAppendWatcher(p)

\* A goroutine calls Load(), Reset(v) with a value not held before, or
\* Watch(f) with a function not registered before.
AtomCallLoad(p) ==
    /\ aPc[p] = "idle"
    /\ aPc' = [aPc EXCEPT ![p] = "load"]
    /\ UNCHANGED <<aV, aWatchers, aMu, aArg, aRes, aOld, aK, aNext, aNextW, aRix,
                   aResets, aCalls>>
    /\ UNCHANGED notAtomVars

AtomCallReset(p) ==
    /\ aPc[p] = "idle"
    /\ aNext <= MaxResets
    /\ aArg' = [aArg EXCEPT ![p] = Tok(aNext, "", 0)]
    /\ aNext' = aNext + 1
    /\ aPc' = [aPc EXCEPT ![p] = "reset"]
    /\ UNCHANGED <<aV, aWatchers, aMu, aRes, aOld, aK, aNextW, aRix, aResets, aCalls>>
    /\ UNCHANGED notAtomVars

AtomCallWatch(p) ==
    /\ aPc[p] = "idle"
    /\ aNextW <= MaxWatchers
    /\ aArg' = [aArg EXCEPT ![p] = Func(aNextW)]
    /\ aNextW' = aNextW + 1
    /\ aPc' = [aPc EXCEPT ![p] = "watch"]
    /\ UNCHANGED <<aV, aWatchers, aMu, aRes, aOld, aK, aNext, aRix, aResets, aCalls>>
    /\ UNCHANGED notAtomVars

\* Load or Reset returns to the goroutine, which drops the result.
AtomReturn(p) ==
    /\ aPc[p] = "ret"
    /\ aPc' = [aPc EXCEPT ![p] = "idle"]
    /\ aRes' = [aRes EXCEPT ![p] = ZeroToken]
    /\ UNCHANGED <<aV, aWatchers, aMu, aArg, aOld, aK, aNext, aNextW, aRix, aResets,
                   aCalls>>
    /\ UNCHANGED notAtomVars

\* Two goroutines that read, write and register, and one that only reads.
Writers == {"t1", "t2"}

AtomUse ==
    \/ \E p \in Threads : AtomCallLoad(p) \/ AtomReturn(p)
    \/ \E p \in Writers : AtomCallReset(p) \/ AtomCallWatch(p)

\* The program at rest, for the runs of the libraries on their own.
ProgramIdle ==
    /\ tree = <<>> /\ lookback = 0 /\ nullEvery = 0 /\ anchoring = "exact"
    /\ now = 0 /\ store = [m \in {} |-> {}] /\ faults = 0 /\ pass = 1
    /\ Fresh

InitAtom == ProgramIdle /\ LibIdle

NextAtom == AtomStep(Threads) \/ AtomUse

SpecAtom == InitAtom /\ [][NextAtom]_vars

\* The Atom with functions that call it from inside Reset's loop.  A
\* goroutine registers a function that calls Load, Reset or Watch.
AtomCallWatchEntering(p) ==
    /\ aPc[p] = "idle"
    /\ aNextW <= MaxWatchers
    /\ \E w \in {11, 12, 13} : aArg' = [aArg EXCEPT ![p] = Func(w)]
    /\ aNextW' = aNextW + 1
    /\ aPc' = [aPc EXCEPT ![p] = "watch"]
    /\ UNCHANGED <<aV, aWatchers, aMu, aRes, aOld, aK, aNext, aRix, aResets, aCalls>>
    /\ UNCHANGED notAtomVars

AtomReenter == \E p \in Writers : AtomWatcherEnters(p)

\* As in main.go:53, the first registration is made by the goroutine that
\* set the Atom up; here the function registered calls the Atom.
AtomRegisterEntering == aNextW = 1 /\ AtomCallWatchEntering("t1")

\* t1 goes on to call Reset, t2 calls Load, Reset and Watch with functions
\* that leave the Atom alone.
AtomUseWriters ==
    \/ \E p \in Writers : AtomCallReset(p) \/ AtomReturn(p)
    \/ AtomCallLoad("t2")
    \/ AtomCallWatch("t2")

NextWatch ==
    \/ AtomStep(Writers)
    \/ AtomUseWriters
    \/ AtomReenter
    \/ AtomRegisterEntering

\* What a step of the Atom's code changes: every one of them moves its
\* goroutine on, so the conditions below are taken over these variables.
watchVars == <<aPc, aK, aMu, aV, aWatchers>>

\* Scheduling.  A goroutine that is inside the Atom and not waiting for the
\* lock keeps running (the Go scheduler is preemptive), and a function that
\* does not call the Atom returns.  A goroutine waiting in Lock or RLock
\* gets the lock if it is free again and again: a pending Lock holds new
\* readers back and sync.Mutex hands over to a waiter that has starved for
\* 1ms, so no waiter is passed over forever.  Nothing obliges a goroutine
\* to call the Atom.
AtomRun(p) ==
    \/ AtomLoadRead(p)
    \/ AtomRUnlock(p)
    \/ AtomSwap(p)
    \/ AtomCallWatcher(p)
    \/ AtomWatcherEnters(p)
    \/ AtomResetUnlock(p)
    \/ AtomAppendWatcher(p)

FairWatch ==
    \A p \in Writers :
        /\ WF_watchVars(AtomRun(p))
        /\ SF_watchVars(AtomRLock(p))
        /\ SF_watchVars(AtomLock(p))

SpecWatch == InitAtom /\ [][NextWatch]_vars /\ FairWatch

(***************************************************************************)
(* The client's transport: throttledTransport over cognitoAuthTransport    *)
(* over the token source, which keeps its token in an Atom.  Time is in     *)
(* ticks of the token clock.                                               *)
(***************************************************************************)

\* The last tick of the token clock.
MaxClock == 2

\* A new token's ExpiresIn, in ticks.
TokenLifetime == 2

\* oauth2 takes a token for expired this long before its Expiry.
ExpiryDelta == 1

\* rate.NewLimiter(rate.Limit(10), 1): the bucket holds one token.
Burst == 1

notClientVars == <<programVars, codecVars>>

\* oauth2.Token.Valid: an access token that has not expired; a zero Expiry
\* never expires.
Valid(tok, t) ==
    /\ tok.AccessToken # 0
    /\ ~(tok.Expiry # 0 /\ tok.Expiry - ExpiryDelta < t)

\* mkToken: the refresh token is the one passed in unless the result
\* carries one (<<>> stands for a nil *string).
MkToken(access, expiresIn, authRefresh, t, refreshToken) ==
    Tok(access,
        IF authRefresh # <<>> THEN authRefresh[1] ELSE refreshToken,
        t + expiresIn)

TokenPath_AuthFirst(tok, t, af) ==
    IF Valid(tok, t) THEN "valid"
    ELSE IF af # "nil" THEN "authfunc"
    ELSE IF tok.RefreshToken # "" THEN "refresh"
    ELSE "no authfunc"

\* The branch Token() takes on the token it loaded (lines 126, 130, 139).
TokenPath(tok, t, af) ==
    IF Valid(tok, t) THEN "valid"
    ELSE IF tok.RefreshToken # "" THEN "refresh"
    ELSE IF af = "nil" THEN "no authfunc"
    ELSE "authfunc"

\* An entry of a call's log: the step, the token it had, whether that was
\* valid then, and whether the step succeeded.
TokOp(kind, tok, t, ok) ==
    [op |-> kind, tok |-> tok, valid |-> Valid(tok, t), ok |-> ok]

\* Token() returns (tok, nil) or (nil, err); the deferred Unlock of c.mu.
TokenReturn(r, tok, isErr) ==
    /\ tRet' = [tRet EXCEPT ![r] = [tok |-> tok, err |-> isErr]]
    /\ tMu' = "none"
    /\ tPc' = [tPc EXCEPT ![r] = "ret"]

\* Lines 135 and 150: the call c.Tok.Reset(tok).
TokenCallReset(r, tok) ==
    /\ tTok' = [tTok EXCEPT ![r] = tok]
    /\ aArg' = [aArg EXCEPT ![r] = tok]
    /\ aPc' = [aPc EXCEPT ![r] = "reset"]
    /\ aNext' = aNext + 1
    /\ tPc' = [tPc EXCEPT ![r] = "reset"]

MutexFree_Always(mu) == TRUE

\* sync.Mutex: Lock waits while another goroutine holds it.
MutexFree(mu) == mu = "none"

\* Lines 122 and 125: c.mu is taken and c.Tok.Load() called.
TokenLock(r) ==
    /\ tPc[r] = "lock"
    /\ MutexFree(tMu)
    /\ tMu' = r
    /\ tPc' = [tPc EXCEPT ![r] = "load"]
    /\ aPc' = [aPc EXCEPT ![r] = "load"]
    /\ UNCHANGED <<aV, aWatchers, aMu, aArg, aRes, aOld, aK, aNext, aNextW, aRix,
                   aResets, aCalls>>
    /\ UNCHANGED <<tTok, tRet, tLog, authFunc, clock>>
    /\ UNCHANGED <<transportVars, notClientVars>>

\* Line 125: Load has returned; tok is what it read.
TokenLoaded(r) ==
    /\ tPc[r] = "load"
    /\ aPc[r] = "ret"
    /\ tTok' = [tTok EXCEPT ![r] = aRes[r]]
    /\ aRes' = [aRes EXCEPT ![r] = ZeroToken]
    /\ aPc' = [aPc EXCEPT ![r] = "idle"]
    /\ tPc' = [tPc EXCEPT ![r] = "check"]
    /\ UNCHANGED <<aV, aWatchers, aMu, aArg, aOld, aK, aNext, aNextW, aRix, aResets,
                   aCalls>>
    /\ UNCHANGED <<tMu, tRet, tLog, authFunc, clock>>
    /\ UNCHANGED <<transportVars, notClientVars>>

\* Lines 126-141: the branch on the loaded token.
TokenCheck(r) ==
    /\ tPc[r] = "check"
    /\ tLog' = [tLog EXCEPT ![r] = Append(@, TokOp("check", tTok[r], clock, TRUE))]
    /\ LET path == TokenPath(tTok[r], clock, authFunc)
       IN  CASE path = "valid" -> TokenReturn(r, tTok[r], FALSE)
             [] path = "refresh" ->
                    /\ tPc' = [tPc EXCEPT ![r] = "refresh"]
                    /\ UNCHANGED <<tMu, tRet>>
             [] path = "no authfunc" -> TokenReturn(r, ZeroToken, TRUE)
             [] path = "authfunc" ->
                    /\ tPc' = [tPc EXCEPT ![r] = "authfunc"]
                    /\ UNCHANGED <<tMu, tRet>>
    /\ UNCHANGED <<tTok, authFunc, clock>>
    /\ UNCHANGED <<atomVars, transportVars, notClientVars>>

\* Lines 131-135: Cognito.Refresh answers with a token, which has no
\* refresh token of its own, or fails.
TokenRefresh(r) ==
    /\ tPc[r] = "refresh"
    /\ \E ok \in BOOLEAN :
        /\ tLog' = [tLog EXCEPT ![r] = Append(@, TokOp("refresh", tTok[r], clock, ok))]
        /\ IF ok
           THEN /\ TokenCallReset(r, MkToken(aNext, TokenLifetime, <<>>, clock,
                                            tTok[r].RefreshToken))
                /\ UNCHANGED <<tMu, tRet>>
           ELSE /\ TokenReturn(r, ZeroToken, TRUE)
                /\ UNCHANGED <<tTok, aArg, aPc, aNext>>
    /\ UNCHANGED <<aV, aWatchers, aMu, aRes, aOld, aK, aNextW, aRix, aResets, aCalls>>
    /\ UNCHANGED <<authFunc, clock>>
    /\ UNCHANGED <<transportVars, notClientVars>>

\* Lines 142-145: AuthFunc gives a username and password, or fails.
TokenAuthFunc(r) ==
    /\ tPc[r] = "authfunc"
    /\ \E ok \in BOOLEAN :
        /\ tLog' = [tLog EXCEPT ![r] = Append(@, TokOp("authfunc", tTok[r], clock, ok))]
        /\ IF ok
           THEN /\ tPc' = [tPc EXCEPT ![r] = "auth"]
                /\ UNCHANGED <<tMu, tRet>>
           ELSE TokenReturn(r, ZeroToken, TRUE)
    /\ UNCHANGED <<tTok, authFunc, clock>>
    /\ UNCHANGED <<atomVars, transportVars, notClientVars>>

\* Lines 146-150: Cognito.Auth answers with a token and its refresh token,
\* or fails.
TokenAuth(r) ==
    /\ tPc[r] = "auth"
    /\ \E ok \in BOOLEAN :
        /\ tLog' = [tLog EXCEPT ![r] = Append(@, TokOp("authenticate", tTok[r], clock, ok))]
        /\ IF ok
           THEN /\ TokenCallReset(r, MkToken(aNext, TokenLifetime, <<"rt">>, clock, ""))
                /\ UNCHANGED <<tMu, tRet>>
           ELSE /\ TokenReturn(r, ZeroToken, TRUE)
                /\ UNCHANGED <<tTok, aArg, aPc, aNext>>
    /\ UNCHANGED <<aV, aWatchers, aMu, aRes, aOld, aK, aNextW, aRix, aResets, aCalls>>
    /\ UNCHANGED <<authFunc, clock>>
    /\ UNCHANGED <<transportVars, notClientVars>>

\* Lines 135-136 and 150-151: Reset has returned; so does Token().
TokenResetDone(r) ==
    /\ tPc[r] = "reset"
    /\ aPc[r] = "ret"
    /\ tLog' = [tLog EXCEPT ![r] = Append(@, TokOp("reset", tTok[r], clock, TRUE))]
    /\ aRes' = [aRes EXCEPT ![r] = ZeroToken]
    /\ aPc' = [aPc EXCEPT ![r] = "idle"]
    /\ TokenReturn(r, tTok[r], FALSE)
    /\ UNCHANGED <<aV, aWatchers, aMu, aArg, aOld, aK, aNext, aNextW, aRix, aResets,
                   aCalls>>
    /\ UNCHANGED <<tTok, authFunc, clock>>
    /\ UNCHANGED <<transportVars, notClientVars>>

\* Time passes for the tokens.
ClockTick ==
    /\ clock < MaxClock
    /\ clock' = clock + 1
    /\ UNCHANGED <<tMu, tPc, tTok, tRet, tLog, authFunc>>
    /\ UNCHANGED <<atomVars, transportVars, notClientVars>>

WaitFails_WhenEmpty(ctx, tokens) == ctx = "done" \/ tokens = 0

\* rate.Limiter.Wait fails when the context is done, or when the wait for
\* the next token would outlast the context's deadline.
WaitFails(ctx, tokens) == ctx = "done" \/ (ctx = "deadline" /\ tokens = 0)

\* http.Client hands a request to throttledTransport.RoundTrip, which
\* calls Limiter.Wait (part_002 line 17).  The client exists once main has
\* registered its watcher.
RequestStart(r) ==
    /\ qPc[r] = "idle"
    /\ aWatchers # <<>>
    /\ \E ctx \in {"background", "cancellable", "deadline"} :
        qCtx' = [qCtx EXCEPT ![r] = ctx]
    /\ qPc' = [qPc EXCEPT ![r] = "wait"]
    /\ UNCHANGED <<lim, qLog>>
    /\ UNCHANGED <<atomVars, tokenVars, notClientVars>>

\* The caller cancels the request, or its deadline passes.
ContextDone(r) ==
    /\ qPc[r] \in {"wait", "auth", "token", "send"}
    /\ qCtx[r] \in {"cancellable", "deadline"}
    /\ qCtx' = [qCtx EXCEPT ![r] = "done"]
    /\ qLog' = [qLog EXCEPT ![r] = Append(@, "ctx done")]
    /\ UNCHANGED <<lim, qPc>>
    /\ UNCHANGED <<atomVars, tokenVars, notClientVars>>

\* Wait returns nil: the request takes a token of the bucket and goes on to
\* cognitoAuthTransport.RoundTrip (part_002 line 20).
LimiterAdmit(r) ==
    /\ qPc[r] = "wait"
    /\ qCtx[r] # "done"
    /\ lim > 0
    /\ lim' = lim - 1
    /\ qLog' = [qLog EXCEPT ![r] = Append(@, "admit")]
    /\ qPc' = [qPc EXCEPT ![r] = "auth"]
    /\ UNCHANGED qCtx
    /\ UNCHANGED <<atomVars, tokenVars, notClientVars>>

\* Wait returns an error: RoundTrip returns "limiter: ..." (line 18).
LimiterError(r) ==
    /\ qPc[r] = "wait"
    /\ WaitFails(qCtx[r], lim)
    /\ qLog' = [qLog EXCEPT ![r] = Append(@, "limiter error")]
    /\ qPc' = [qPc EXCEPT ![r] = "done"]
    /\ UNCHANGED <<lim, qCtx>>
    /\ UNCHANGED <<atomVars, tokenVars, notClientVars>>

\* A tenth of a second has passed: the bucket is full again.
LimiterRefill ==
    /\ lim < Burst
    /\ lim' = lim + 1
    /\ UNCHANGED <<qPc, qCtx, qLog>>
    /\ UNCHANGED <<atomVars, tokenVars, notClientVars>>

\* cognitoAuthTransport.RoundTrip calls t.Source.Token() (line 177).
TokenCall(r) ==
    /\ qPc[r] = "auth"
    /\ qLog' = [qLog EXCEPT ![r] = Append(@, "token")]
    /\ qPc' = [qPc EXCEPT ![r] = "token"]
    /\ tPc' = [tPc EXCEPT ![r] = "lock"]
    /\ UNCHANGED <<lim, qCtx>>
    /\ UNCHANGED <<tMu, tTok, tRet, tLog, authFunc, clock>>
    /\ UNCHANGED <<atomVars, notClientVars>>

\* Lines 178-183: Token() has returned; an error ends the round trip.
TokenReturned(r) ==
    /\ qPc[r] = "token"
    /\ tPc[r] = "ret"
    /\ tPc' = [tPc EXCEPT ![r] = "idle"]
    /\ tTok' = [tTok EXCEPT ![r] = ZeroToken]
    /\ IF tRet[r].err
       THEN /\ qLog' = [qLog EXCEPT ![r] = Append(@, "token error")]
            /\ qPc' = [qPc EXCEPT ![r] = "done"]
       ELSE /\ qPc' = [qPc EXCEPT ![r] = "send"]
            /\ UNCHANGED qLog
    /\ UNCHANGED <<lim, qCtx>>
    /\ UNCHANGED <<tMu, tRet, tLog, authFunc, clock>>
    /\ UNCHANGED <<atomVars, notClientVars>>

\* Line 186: the base transport sends the request, unless its context is
\* done.
TransportSend(r) ==
    /\ qPc[r] = "send"
    /\ qLog' = [qLog EXCEPT ![r] =
                   Append(@, IF qCtx[r] = "done" THEN "send error" ELSE "send")]
    /\ qPc' = [qPc EXCEPT ![r] = "done"]
    /\ UNCHANGED <<lim, qCtx>>
    /\ UNCHANGED <<atomVars, tokenVars, notClientVars>>

\* main.run registers the watcher that saves the token, before it makes
\* the client (main.go lines 53-59).
RunWatch == aNextW = 1 /\ AtomCallWatch("t1")

\* The token file holds no token, one still valid that never expires or
\* will expire, with or without a refresh token.
HeldTokens ==
    { ZeroToken, Tok(90, "", 0), Tok(91, "rt", 2), Tok(92, "", 1), Tok(93, "rt", 0) }

InitClient ==
    /\ ProgramIdle
    /\ \E held \in HeldTokens, af \in {"nil", "set"} : LibWith(held, af)

NextClient ==
    \/ RunWatch
    \/ AtomStep(Requests \cup {"t1"})
    \/ \E r \in Requests :
        \/ RequestStart(r)
        \/ ContextDone(r)
        \/ LimiterAdmit(r)
        \/ LimiterError(r)
        \/ TokenCall(r)
        \/ TokenLock(r)
        \/ TokenLoaded(r)
        \/ TokenCheck(r)
        \/ TokenRefresh(r)
        \/ TokenAuthFunc(r)
        \/ TokenAuth(r)
        \/ TokenResetDone(r)
        \/ TokenReturned(r)
        \/ TransportSend(r)
    \/ LimiterRefill
    \/ ClockTick

SpecClient == InitClient /\ [][NextClient]_vars

(***************************************************************************)
(* The wire codecs of vmclient.  Instants are in microseconds here, values *)
(* are a finite number of thousandths or NaN, a map is a set of pairs      *)
(* <<key, value>> with one pair per key.                                   *)
(***************************************************************************)

\* The longest Samples, values and timestamps drawn.
MaxSamples == 2

Fin(v) == [kind |-> "finite", v |-> v]

NaN == [kind |-> "NaN", v |-> 0]

\* A Go map: nil, or made and holding kv.
NilMap == [nil |-> TRUE, kv |-> {}]

MakeMap(kv) == [nil |-> FALSE, kv |-> kv]

\* time.Time.UnixMilli and time.UnixMilli, on instants in microseconds.
UnixMilliOf(t) == t \div 1000

TimeOfUnixMilli(ms) == ms * 1000

\* time.Unix(sec, 0).
TimeOfUnix(sec) == sec * 1000000

\* m[k], "" when k is not in the map.
MapGet(kv, k) == IF \E p \in kv : p[1] = k THEN (CHOOSE p \in kv : p[1] = k)[2] ELSE ""

\* maps.Copy(dst, src): the pairs of src overwrite those of dst.
MapsCopy(dst, src) == {p \in dst : ~\E q \in src : q[1] = p[1]} \cup src

\* delete(m, k).
MapDelete(kv, k) == {p \in kv : p[1] # k}

\* Metric.MarshalJSON (lines 105-109): the JSON object written.
MetricMarshal(m) == MapsCopy({<<"__name__", m.Name>>}, m.Labels.kv)

\* Metric.UnmarshalJSON (lines 112-125) of a JSON object of strings.
MetricUnmarshal(obj) ==
    LET labels == MapDelete(obj, "__name__")
    IN  [Name |-> MapGet(obj, "__name__"),
         Labels |-> IF labels # {} THEN MakeMap(labels) ELSE NilMap]

\* json.Encoder.Encode fails on a value that is not finite, and then it has
\* written nothing.
EncodeFails(values) == \E i \in 1..Len(values) : values[i].kind # "finite"

\* The fields of jseries that are written (lines 45-49): values and
\* timestamps have omitempty, which leaves out a slice of length 0.
JSeriesFields(values, timestamps) ==
    {"metric"} \cup (IF Len(values) = 0 THEN {} ELSE {"values"})
               \cup (IF Len(timestamps) = 0 THEN {} ELSE {"timestamps"})

\* Series.MarshalJSON (lines 58-75).  The error of Encode is dropped, and
\* Truncate(buf.Len() - 1) of the empty buffer panics.
SeriesMarshal(s) ==
    LET values == [i \in 1..Len(s.Samples) |-> s.Samples[i].Value]
        timestamps == [i \in 1..Len(s.Samples) |-> UnixMilliOf(s.Samples[i].Timestamp)]
    IN  IF EncodeFails(values)
        THEN [panic |-> TRUE]
        ELSE [panic |-> FALSE,
              doc |-> [metric |-> MetricMarshal(s.Metric),
                       values |-> values, timestamps |-> timestamps,
                       fields |-> JSeriesFields(values, timestamps)]]

\* Series.UnmarshalJSON (lines 78-91) of a well-formed document, into a
\* zero Series: doc.Timestamps[i] for every i of doc.Values.
SeriesUnmarshal(doc) ==
    IF Len(doc.values) > Len(doc.timestamps)
    THEN [panic |-> TRUE, err |-> FALSE]
    ELSE [panic |-> FALSE, err |-> FALSE,
          val |-> [Metric |-> MetricUnmarshal(doc.metric),
                   Samples |-> [i \in 1..Len(doc.values) |->
                                  [Value |-> doc.values[i],
                                   Timestamp |-> TimeOfUnixMilli(doc.timestamps[i])]]]]

\* fmt.Sprint of a float64 and strconv.ParseFloat of what it wrote.
FormatFloat(v) == [str |-> v]

ParseFloat(s) == s.str

\* Sample.MarshalJSON (lines 138-140): the two elements written.
SampleMarshal(s) == <<UnixMilliOf(s.Timestamp), FormatFloat(s.Value)>>

\* Sample.UnmarshalJSON (lines 143-166) of an array of a number and a string.
SampleUnmarshal(doc) ==
    [err |-> FALSE,
     val |-> [Value |-> ParseFloat(doc[2]), Timestamp |-> TimeOfUnix(doc[1])]]

\* The sequences over S of at most n elements.
SeqUpTo(S, n) == UNION {[1..k -> S] : k \in 0..n}

\* JSON values: a number, a string (the spelling of a float, or a text that
\* is none), null, true, an object, an array of values.
JNum(n) == [t |-> "number", v |-> n]

JStr(s) == [t |-> "string", v |-> s]

JOther(t) == [t |-> t, v |-> 0]

JArray(els) == [t |-> "array", v |-> els]

\* A string that strconv.ParseFloat rejects.
Text == [str |-> [kind |-> "text", v |-> 0]]

ParseFloatFails(s) == s.str.kind = "text"

SampleDecode_AnyString(js) ==
    IF js.t \notin {"array", "null"} THEN [err |-> TRUE]
    ELSE LET doc == IF js.t = "null" THEN <<>> ELSE js.v
         IN  IF Len(doc) # 2 THEN [err |-> TRUE]
             ELSE IF doc[1].t # "number" THEN [err |-> TRUE]
             ELSE IF doc[2].t # "string" THEN [err |-> TRUE]
             ELSE [err |-> FALSE,
                   val |-> [Value |-> ParseFloat(doc[2].v),
                            Timestamp |-> TimeOfUnix(doc[1].v)]]

\* Sample.UnmarshalJSON (lines 143-166) of any JSON value: json.Unmarshal
\* into a []any fails on what is no array (null gives the nil slice), then
\* the length, the number, the string and its parse are checked in turn.
SampleDecode(js) ==
    IF js.t \notin {"array", "null"} THEN [err |-> TRUE]
    ELSE LET doc == IF js.t = "null" THEN <<>> ELSE js.v
         IN  IF Len(doc) # 2 THEN [err |-> TRUE]
             ELSE IF doc[1].t # "number" THEN [err |-> TRUE]
             ELSE IF doc[2].t # "string" THEN [err |-> TRUE]
             ELSE IF ParseFloatFails(doc[2].v) THEN [err |-> TRUE]
             ELSE [err |-> FALSE,
                   val |-> [Value |-> ParseFloat(doc[2].v),
                            Timestamp |-> TimeOfUnix(doc[1].v)]]

\* The longest array a store's answer holds in place of a sample.
MaxElements == 3

JElements ==
    {JNum(0), JNum(1), JStr(FormatFloat(Fin(1500))), JStr(Text), JOther("null"),
     JOther("true")}

\* What may stand where a sample is expected.
SampleDocs ==
    {JOther("null"), JOther("object"), JStr(Text)}
        \cup {JArray(els) : els \in SeqUpTo(JElements, MaxElements)}

SeriesInputs ==
    [Metric : [Name : {"", "m"},
               Labels : {NilMap, MakeMap({}), MakeMap({<<"a", "1">>}),
                         MakeMap({<<"__name__", "x">>}),
                         MakeMap({<<"a", "1">>, <<"__name__", "x">>})}],
     Samples : SeqUpTo([Value : {Fin(0), Fin(1500), NaN},
                        Timestamp : {0, 1000, 1500}], MaxSamples)]

SampleInputs ==
    [Value : {Fin(0), Fin(1500)}, Timestamp : {0, 1000, 1500, 1000000, 2000000}]

\* The documents a store may send: a metric, and values and timestamps (in
\* milliseconds) of any two lengths.
WireDocs ==
    [metric : {{<<"__name__", "m">>}, {<<"__name__", "m">>, <<"a", "1">>}},
     values : SeqUpTo({Fin(0), Fin(1500)}, MaxSamples),
     timestamps : SeqUpTo({0, 1}, MaxSamples)]

notCodecVars == <<programVars, atomVars, tokenVars, transportVars>>

\* A caller encodes a Series.
CodecSeriesMarshal ==
    /\ cPc = "idle"
    /\ \E s \in SeriesInputs :
        /\ cIn' = s
        /\ cWire' = SeriesMarshal(s)
        /\ cPc' = IF SeriesMarshal(s).panic THEN "panic" ELSE "series_wire"
    /\ UNCHANGED cOut
    /\ UNCHANGED notCodecVars

\* A document arrives from the store.
CodecReceive ==
    /\ cPc = "idle"
    /\ \E doc \in WireDocs : cWire' = [panic |-> FALSE, doc |-> doc]
    /\ cPc' = "received"
    /\ UNCHANGED <<cIn, cOut>>
    /\ UNCHANGED notCodecVars

\* The encoded or received document is decoded.
CodecSeriesUnmarshal ==
    /\ cPc \in {"series_wire", "received"}
    /\ cOut' = SeriesUnmarshal(cWire.doc)
    /\ cPc' = IF SeriesUnmarshal(cWire.doc).panic THEN "panic"
              ELSE IF cPc = "received" THEN "received_out" ELSE "series_out"
    /\ UNCHANGED <<cIn, cWire>>
    /\ UNCHANGED notCodecVars

\* A caller encodes a Sample.
CodecSampleMarshal ==
    /\ cPc = "idle"
    /\ \E s \in SampleInputs :
        /\ cIn' = s
        /\ cWire' = SampleMarshal(s)
    /\ cPc' = "sample_wire"
    /\ UNCHANGED cOut
    /\ UNCHANGED notCodecVars

\* The encoded Sample is decoded.
CodecSampleUnmarshal ==
    /\ cPc = "sample_wire"
    /\ cOut' = SampleUnmarshal(cWire)
    /\ cPc' = "sample_out"
    /\ UNCHANGED <<cIn, cWire>>
    /\ UNCHANGED notCodecVars

\* A scalar answer arrives from the store.
CodecSampleReceive ==
    /\ cPc = "idle"
    /\ \E js \in SampleDocs : cWire' = js
    /\ cPc' = "sample_received"
    /\ UNCHANGED <<cIn, cOut>>
    /\ UNCHANGED notCodecVars

\* It is decoded as a Sample.
CodecSampleDecode ==
    /\ cPc = "sample_received"
    /\ cOut' = SampleDecode(cWire)
    /\ cPc' = "sample_decoded"
    /\ UNCHANGED <<cIn, cWire>>
    /\ UNCHANGED notCodecVars

InitCodec == ProgramIdle /\ LibIdle

NextCodec ==
    \/ CodecSeriesMarshal
    \/ CodecReceive
    \/ CodecSeriesUnmarshal
    \/ CodecSampleMarshal
    \/ CodecSampleUnmarshal
    \/ CodecSampleReceive
    \/ CodecSampleDecode

SpecCodec == InitCodec /\ [][NextCodec]_vars

(***************************************************************************)
(* One pass whose steps are always taken: the program, once started, runs  *)
(* on until it returns or dies.  Windows of no, one, two and four pages,    *)
(* the longest over a stretch for which upstream holds no data.            *)
(***************************************************************************)
HistoryCases ==
    { <<0, 0>>, <<Minutes(2), 0>>, <<Minutes(801), 0>>, <<Minutes(2401), 1>> }

InitHistory ==
    /\ InitWith({<<Device(1, <<Total>>, <<>>)>>}, {c[1] : c \in HistoryCases},
                {Minutes(3000) + 34500}, {0, 1})
    /\ <<lookback, nullEvery>> \in HistoryCases

SpecHistory == InitHistory /\ [][Pass]_vars /\ WF_vars(Pass)

(***************************************************************************)
(* Properties                                                              *)
(***************************************************************************)
\* The slots of found that hold a value, and their positions.
HasValue(s) == s # <<>>

NonNull(found) == SelectSeq(found, HasValue)

\* All samples of the Push calls of this call, in call order.
AllPushed == Concat([i \in 1..Len(pushes) |-> pushes[i].series.Samples])

PushSizes == [i \in 1..Len(pushes) |-> Len(pushes[i].series.Samples)]

\* Whether the answer is a vector of exactly one series (holding, as every
\* vector element does, exactly one sample), and the instant its value
\* names: the epoch second of the last stored sample.
SingleSeries(resp) ==
    /\ resp.status = "ok"
    /\ resp.resultType = resultTypeVector
    /\ Len(resp.result) = 1

LastSampleInstant(resp) == TimeUnix(Int64(resp.result[1].value.val))

\* C1: right after the resume query, the start handed to the paginator is
\* never before the caller's since; it is the last sample's instant plus
\* the scale's duration when the answer is a vector of exactly one series
\* and that instant is later than since, and it is since itself for every
\* other answer (empty vector, several series, a scalar).
C1_ResumePoint ==
    ePc = "push" =>
        /\ eSince >= eQuery.from
        /\ IF SingleSeries(eQuery.resp)
              /\ LastSampleInstant(eQuery.resp) + Duration(scale) > eQuery.from
           THEN eSince = LastSampleInstant(eQuery.resp) + Duration(scale)
           ELSE eSince = eQuery.from

C1_Witness ==
    /\ ePc = "push"
    /\ SingleSeries(eQuery.resp)
    /\ eSince = LastSampleInstant(eQuery.resp) + Duration(scale)
    /\ eSince > eQuery.from

\* exportHistory has run its loop to the end and returns nil.
ExportDone == ePc = "close" /\ eRet = "nil"

IsPrefix(a, b) == Len(a) <= Len(b) /\ \A i \in 1..Len(a) : a[i] = b[i]

\* The Push calls made so far are the first calls of sizes, and all of
\* them once the loop is done.
PushesFollow(sizes) ==
    /\ IsPrefix(PushSizes, sizes)
    /\ ExportDone => PushSizes = sizes

\* C2 (as stated): 2500 samples and the threshold 1000 give exactly 3 Push
\* calls, of 1000, 1000 and 500 samples, in that order.
C2_Batches_1000_1000_500 ==
    \/ ePc \notin {"batch", "close"}
    \/ PushesFollow(<<1000, 1000, 500>>)
    \/ Len(NonNull(eFound)) # 2500

\* C2 (amended): the buffer is flushed when it holds more than 1000
\* samples, so 2500 samples give exactly 3 Push calls, of 1001, 1001 and
\* 498 samples, in that order.
C2_Batches_1001_1001_498 ==
    \/ ePc \notin {"batch", "close"}
    \/ PushesFollow(<<1001, 1001, 498>>)
    \/ Len(NonNull(eFound)) # 2500

C2_Witness ==
    /\ ExportDone
    /\ Len(NonNull(eFound)) = 2500
    /\ Len(pushes) = 3

\* The label "name" a channel's series should carry.
DisplayName(ch) == IF ch.Name = "" THEN "__total__" ELSE ch.Name

\* C3: every Series pushed for a channel carries the label name=__total__
\* when the channel's display name is empty, and the name itself otherwise.
C3_NameLabel ==
    \A i \in 1..Len(pushes) :
        pushes[i].series.Metric.Labels.name = DisplayName(Ch)

\* The number of pages of size p that cover an interval of length l.
CeilDiv(l, p) == (l + p - 1) \div p

\* The slots upstream gave for the page requests made, in request order.
PagesSlots ==
    Concat([i \in 1..Len(pages) |->
              UpstreamPage(pages[i].start, pages[i].end, scale).samples])

\* C4: when GetHistory returns for start < end, it has issued exactly
\* ceil((end - start) / PageSize) page requests; the first starts at
\* start, each starts where the one before ended, each spans at most
\* PageSize, the last ends at end, and the slots returned are the pages'
\* slots concatenated in request order.  While the loop runs, the requests
\* made so far are a contiguous chain from start.
C4_PaginationCoverage ==
    /\ (ePc = "history" /\ eSince < until) =>
          /\ Len(pages) <= CeilDiv(until - eSince, PageSize(scale))
          /\ gStart = IF pages = <<>> THEN eSince ELSE pages[Len(pages)].end
    /\ (ePc = "history_ret" /\ ~gRet.err /\ eSince < until) =>
          LET n == CeilDiv(until - eSince, PageSize(scale))
          IN  /\ Len(pages) = n
              /\ pages[1].start = eSince
              /\ \A i \in 2..n : pages[i].start = pages[i - 1].end
              /\ \A i \in 1..n :
                    /\ pages[i].ok
                    /\ pages[i].start < pages[i].end
                    /\ pages[i].end - pages[i].start <= PageSize(scale)
              /\ pages[n].end = until
              /\ gRet.samples = PagesSlots

C4_Witness ==
    /\ ePc = "history_ret" /\ ~gRet.err
    /\ until - eSince = Minutes(2500)
    /\ Len(pages) = 4
    /\ pages[4].end - pages[4].start = Minutes(100)
    /\ Len(gRet.samples) >= 2500

\* C5: in a pass that follows a pass in which nothing failed, with the
\* store answering the resume query from what it holds and upstream
\* anchoring each page at the start it was asked for, no sample handed to
\* Push has a timestamp at or before the latest one already stored for
\* the channel's series.
C5_NoSampleWrittenTwice ==
    (/\ pass > 1
     /\ faults = 0
     /\ anchoring = "exact"
     /\ eQuery.kind = "store") =>
        \A i \in 1..Len(pushes) :
            \A k \in 1..Len(pushes[i].series.Samples) :
                pushes[i].series.Samples[k].Timestamp > eQuery.lastStored

\* C6: a call of exportHistory in which an operation failed (the query, a
\* page request, a Push, the Close of the stream) does not return nil.
C6_ErrorsPropagate ==
    (ePc = "ret" /\ eFailed) => eRet = "err"

\* The channels reachable under a device tree: for each device in turn,
\* its own channels, then those of its nested sub-devices.
RECURSIVE TreeChannels(_)
TreeChannels(ds) ==
    IF ds = <<>> THEN <<>>
    ELSE Head(ds).Channels \o TreeChannels(Head(ds).Devices) \o TreeChannels(Tail(ds))

IsReturn(o) == o.op \in {"return nil", "return err"}

IsReturnNil(o) == o.op = "return nil"

\* The channels whose export has returned nil, in order.
Exported == [i \in 1..Len(SelectSeq(opLog, IsReturnNil)) |->
               SelectSeq(opLog, IsReturnNil)[i].channel]

\* C7: the operations of a pass go channel by channel in the tree's order;
\* a channel's first operation is its store query and comes only after
\* the previous channel's export has returned; when an export returns an
\* error nothing is done after it and run returns the error; and when run
\* returns nil every reachable channel has been exported exactly once.
C7_FailFastSequential ==
    /\ \A i \in 1..Len(opLog) :
          /\ i = 1 => opLog[i].ch = 1 /\ opLog[i].op = "query"
          /\ (i > 1 /\ IsReturn(opLog[i - 1])) =>
                /\ opLog[i].ch = opLog[i - 1].ch + 1
                /\ opLog[i].op = "query"
          /\ (i > 1 /\ ~IsReturn(opLog[i - 1])) =>
                /\ opLog[i].ch = opLog[i - 1].ch
                /\ opLog[i].op # "query"
          /\ opLog[i].op = "return err" =>
                i = Len(opLog) /\ rPc = "returned" /\ rErr
    /\ IsPrefix(Exported, TreeChannels(tree))
    /\ (rPc = "returned" /\ ~rErr) => Exported = TreeChannels(tree)

C7_Witness ==
    /\ rPc = "returned" /\ rErr
    /\ Len(TreeChannels(tree)) = 3
    /\ Len(Exported) = 1
    /\ opLog[Len(opLog)] = [op |-> "return err", ch |-> 2, channel |-> Kitchen]

\* C8: a failed page request is the last one GetHistory makes; GetHistory
\* then returns the error with no samples, whatever the earlier pages
\* gave; no page is requested twice; and exportHistory returns the error
\* without a Push.
C8_PageFailureAborts ==
    /\ \A i \in 1..Len(pages) : ~pages[i].ok => i = Len(pages)
    /\ \A i, j \in 1..Len(pages) : i < j => pages[i].start # pages[j].start
    /\ (ePc = "history_ret" /\ gRet.err) =>
          /\ gRet.samples = <<>>
          /\ pages # <<>> /\ ~pages[Len(pages)].ok
    /\ (ePc \in {"close", "ret"} /\ pages # <<>> /\ ~pages[Len(pages)].ok) =>
          eRet = "err" /\ pushes = <<>>

C8_Witness ==
    /\ ePc = "history_ret" /\ gRet.err
    /\ Len(pages) = 3
    /\ gRet.samples = <<>>

\* The positions of the first n slots of found that hold a value.
ValuePositions(found, n) ==
    SelectSeq([i \in 1..n |-> i], LAMBDA i : found[i] # <<>>)

\* The sample exportHistory is to build from the slot at position i.
SlotSample(i) ==
    [Value |-> eFound[i][1], Timestamp |-> firstInst + (i - 1) * Duration(scale)]

\* C9: the loop over the slots is at the instant t0 + i * Duration of the
\* slot it is at, whether or not the slots before hold a value; and when it
\* is done the samples handed to Push are, in order, the samples of the
\* slots that hold a value, the one of slot i stamped t0 + i * Duration.
\* 120 one-minute slots that all hold a value, with no series stored,
\* give one Push of 120 samples a minute apart from t0.
C9_SlotTimestamps ==
    /\ ePc = "batch" => eStart = firstInst + (eIdx - 1) * Duration(scale)
    /\ ExportDone =>
          LET pos == ValuePositions(eFound, Len(eFound))
          IN  AllPushed = [k \in 1..Len(pos) |-> SlotSample(pos[k])]
    /\ (ExportDone /\ Len(eFound) = 120 /\ NonNull(eFound) = eFound) =>
          /\ Len(pushes) = 1
          /\ pushes[1].series.Samples =
                [k \in 1..120 |->
                   [Value |-> eFound[k][1], Timestamp |-> firstInst + Minutes(k - 1)]]

C9_Witness ==
    /\ ExportDone
    /\ Len(eFound) >= 4
    /\ eFound[1] = <<>> /\ eFound[2] # <<>> /\ eFound[3] # <<>> /\ eFound[4] = <<>>
    /\ Len(AllPushed) >= 3
    /\ AllPushed[1].Timestamp = firstInst + Duration(scale)
    /\ AllPushed[3].Timestamp = AllPushed[2].Timestamp + 2 * Duration(scale)

\* The number of samples handed to Push so far.
RECURSIVE SumSeq(_)
SumSeq(q) == IF q = <<>> THEN 0 ELSE Head(q) + SumSeq(Tail(q))

\* C10: the count exportHistory reports is the number of slots holding a
\* value, and is the number of samples over all Push calls; the batches
\* together are exactly those samples, oldest first, each once.  While
\* the loop runs, every sample counted is either pushed or buffered.
C10_CountConservation ==
    /\ ePc = "batch" =>
          /\ eC = SumSeq(PushSizes) + Len(eSeries.Samples)
          /\ eC = Len(ValuePositions(eFound, eIdx - 1))
    /\ ExportDone =>
          /\ reported = Len(NonNull(eFound))
          /\ reported = Len(AllPushed)
          /\ \A k \in 1..Len(AllPushed) :
                AllPushed[k].Value = NonNull(eFound)[k][1]
          /\ \A k \in 1..Len(AllPushed) - 1 :
                AllPushed[k].Timestamp < AllPushed[k + 1].Timestamp

C10_Witness ==
    /\ ExportDone
    /\ Len(pushes) = 2
    /\ PushSizes[1] = 1001 /\ PushSizes[2] > 0
    /\ reported = 1001 + PushSizes[2]
    /\ Len(eFound) > reported

\* The place of an operation in one call of exportHistory.
OpRank(o) ==
    CASE o.op = "query"  -> 0
      [] o.op = "stream" -> 1
      [] o.op = "page"   -> 2
      [] o.op = "push"   -> 3
      [] o.op = "close"  -> 4
      [] OTHER           -> 5

\* The resume query of this call failed (the request, or its decoding).
QueryFailed == eQuery.kind # "none" /\ eQuery.resp.status # "ok"

PageFailed == \E i \in 1..Len(pages) : ~pages[i].ok

\* C11: of the operations of one call of exportHistory the store query
\* is the first and the only query, every page request comes after it and
\* before the first Push, and once the loop is done the last Push is the
\* flush of the remainder; when the query or a page request has failed
\* nothing is pushed in that call.
C11_OperationOrder ==
    /\ \A i, j \in 1..Len(opLog) :
          (i < j /\ opLog[i].ch = opLog[j].ch) =>
              /\ OpRank(opLog[i]) <= OpRank(opLog[j])
              /\ opLog[j].op # "query"
    /\ (ePc \in {"close", "ret"} /\ eRet = "nil" /\ eSeries.Samples # <<>>) =>
          /\ pushes # <<>>
          /\ pushes[Len(pushes)].series = eSeries
    /\ (ePc # "idle" /\ PushSizes # <<>>) =>
          Len(SelectSeq(opLog, LAMBDA o : o.ch = chIdx /\ o.op = "push")) = Len(pushes)
    /\ (QueryFailed \/ PageFailed) => pushes = <<>>

C11_Witness ==
    /\ ePc = "ret" /\ eRet = "nil"
    /\ Len(pages) = 2 /\ Len(pushes) = 1
    /\ [i \in 1..Len(opLog) |-> opLog[i].op] =
          <<"query", "stream", "page", "page", "push", "close">>

\* The answer to the resume query arrived and names a result type that is
\* neither a scalar nor a vector.
UnsupportedAnswer ==
    /\ eQuery.kind # "none"
    /\ eQuery.resp.status = "ok"
    /\ eQuery.resp.resultType \notin {resultTypeScalar, resultTypeVector}

\* C17: when the store answers the resume query with a matrix, a string
\* or a result type it does not know, exportHistory returns an error at
\* once: its start stays where it was, no stream is opened, no page is
\* requested and nothing is pushed, and run returns the error.
C17_UnsupportedResultType ==
    UnsupportedAnswer =>
        /\ ePc \in {"ret", "idle"}
        /\ eRet = "err"
        /\ eSince = eQuery.from
        /\ pages = <<>> /\ pushes = <<>> /\ pusher = "none"
        /\ ePc = "ret" => opLog[Len(opLog)] = Op("query")
        /\ ePc = "idle" => rPc = "returned" /\ rErr

C17_Witness ==
    /\ UnsupportedAnswer
    /\ eQuery.resp.resultType = resultTypeMatrix
    /\ chIdx = 2
    /\ rPc = "returned" /\ rErr
    /\ opLog[Len(opLog)] = Op("return err")

\* C16: for start <= end the page loop of GetHistory ends: the cursor
\* never passes end, at most ceil((end - start) / PageSize) requests are
\* made, none when start equals end, and GetHistory returns (with the
\* cursor at end unless a request failed) or the process has died.
C16_GetHistoryTerminates ==
    /\ []((ePc \in {"history", "history_ret"} /\ eSince <= until) =>
             /\ gStart >= eSince /\ gStart <= until
             /\ Len(pages) <= CeilDiv(until - eSince, PageSize(scale))
             /\ eSince = until => pages = <<>>
             /\ (ePc = "history_ret" /\ ~gRet.err) => gStart = until)
    /\ (ePc = "history" /\ eSince <= until) ~> (ePc \in {"history_ret", "crashed"})

C16_Witness ==
    /\ ePc = "history_ret" /\ ~gRet.err
    /\ gStart = until
    /\ Len(pages) = 4
    /\ until - eSince = Minutes(2401)

\* The calls of watchers made for the swap number n, in order.
CallsOf(n) == SelectSeq(aCalls, LAMBDA c : c.reset = n)

\* The calls swap number n owes: one per watcher registered at the swap,
\* in registration order, each with the value before and after the swap.
CallsOwed(n) ==
    [i \in 1..Len(aResets[n].watchers) |->
       [w |-> aResets[n].watchers[i], old |-> aResets[n].old,
        new |-> aResets[n].new, reset |-> n]]

\* The Reset that made swap number n has returned.
ResetDone(n) == \A p \in Procs : aRix[p] # n

\* The value the Atom holds after the swaps made so far.
LatestValue == IF aResets = <<>> THEN ZeroToken ELSE aResets[Len(aResets)].new

\* C12: each Reset swaps the held value and calls every watcher
\* registered before its swap exactly once, with the value before the
\* swap and its own value; the calls of one Reset are not mixed with
\* those of another, each swap starts from the value the one before left,
\* and the pairs one watcher receives form a chain.
C12_ResetNotifies ==
    /\ aV = LatestValue
    /\ \A n \in 1..Len(aResets) :
          /\ aResets[n].old = IF n = 1 THEN ZeroToken ELSE aResets[n - 1].new
          /\ IsPrefix(CallsOf(n), CallsOwed(n))
          /\ ResetDone(n) => CallsOf(n) = CallsOwed(n)
    /\ \A i \in 1..Len(aCalls) - 1 : aCalls[i].reset <= aCalls[i + 1].reset
    /\ \A w \in 1..MaxWatchers + 1 :
          LET mine == SelectSeq(aCalls, LAMBDA c : c.w = w)
          IN  \A i \in 1..Len(mine) - 1 :
                 /\ mine[i].new = mine[i + 1].old
                 /\ mine[i + 1].reset = mine[i].reset + 1

C12_Witness ==
    /\ \A p \in Threads : aPc[p] = "idle"
    /\ Len(aResets) = 2
    /\ aResets[1].by # aResets[2].by
    /\ aResets[1].watchers = <<1>> /\ aResets[2].watchers = <<1, 2>>
    /\ Len(aCalls) = 3
    /\ aCalls[1] = [w |-> 1, old |-> ZeroToken, new |-> Tok(1, "", 0), reset |-> 1]
    /\ aCalls[2] = [w |-> 1, old |-> Tok(1, "", 0), new |-> Tok(2, "", 0), reset |-> 2]

\* C13: a Load reads the initial value or the value of the latest swap,
\* and reads it only when the Reset of every swap has called all the
\* watchers it owes a call and returned; while a Reset calls watchers the
\* held value is the value it was given.
C13_LoadSnapshot ==
    /\ \A p \in Procs :
          aPc[p] = "load_read" =>
              /\ aRes[p] = LatestValue
              /\ aRes[p] = aV
              /\ \A n \in 1..Len(aResets) :
                    ResetDone(n) /\ CallsOf(n) = CallsOwed(n)
    /\ \A p \in Procs :
          aPc[p] = "reset_notify" =>
              /\ aV = aArg[p]
              /\ aV = aResets[aRix[p]].new
              /\ \A q \in Procs : aPc[q] \notin {"load_locked", "load_read"}
    /\ \A i \in 1..Len(aCalls) : aCalls[i].new = aResets[aCalls[i].reset].new

C13_Witness ==
    /\ aPc["t1"] = "load_read" /\ aPc["t3"] = "load_read" /\ aPc["t2"] = "reset"
    /\ Len(aResets) = 1 /\ Len(aCalls) = 1
    /\ aRes["t1"] = Tok(1, "", 0) /\ aRes["t3"] = Tok(1, "", 0)

(***************************************************************************)
(* The token source.                                                       *)
(***************************************************************************)

\* The call of Token() made for request r has returned.
TokenDone(r) == tLog[r] # <<>> /\ tPc[r] \in {"ret", "idle"}

\* The steps of r's call, and the Resets it made.
TokenOps(r) == [i \in 1..Len(tLog[r]) |-> tLog[r][i].op]

ResetsBy(r) == SelectSeq(aResets, LAMBDA x : x.by = r)

Has(q, x) == \E i \in 1..Len(q) : q[i] = x

\* What the claim says of every case but the one with neither a valid token
\* nor a refresh token.
TokenSelection(r) ==
    LET first == tLog[r][1]
        ops == TokenOps(r)
        rs == ResetsBy(r)
        n == CHOOSE i \in 1..Len(aResets) : aResets[i].by = r
    IN  /\ first.op = "check"
        /\ first.valid =>
              /\ ops = <<"check">>
              /\ tRet[r] = [tok |-> first.tok, err |-> FALSE]
        /\ (~first.valid /\ first.tok.RefreshToken # "") =>
              /\ Len(ops) >= 2 /\ ops[2] = "refresh"
              /\ ~Has(ops, "authenticate") /\ ~Has(ops, "authfunc")
        /\ ~tRet[r].err <=>
              \/ first.valid
              \/ \E i \in 1..Len(ops) :
                    ops[i] \in {"refresh", "authenticate"} /\ tLog[r][i].ok
        /\ Len(rs) = (IF ~tRet[r].err /\ ~first.valid THEN 1 ELSE 0)
        /\ rs # <<>> =>
              /\ rs[1].old = first.tok /\ rs[1].new = tRet[r].tok
              /\ rs[1].new # first.tok
              /\ ops[Len(ops)] = "reset"
              /\ CallsOf(n) = CallsOwed(n) /\ CallsOwed(n) # <<>>

\* C14 as stated: a valid token is returned as it is; a refresh token
\* means refresh and never authenticate; with neither, authenticate is
\* called; the holder is Reset, and its watchers called, exactly when the
\* refresh or authentication succeeds.
C14_CredentialSelection_AlwaysAuthenticates ==
    \A r \in Requests :
        TokenDone(r) =>
            /\ TokenSelection(r)
            /\ (~tLog[r][1].valid /\ tLog[r][1].tok.RefreshToken = "") =>
                  Has(TokenOps(r), "authenticate")

\* C14, amended: with neither a valid token nor a refresh token,
\* authenticate is called exactly when AuthFunc is set and gives a username
\* and password; when it is unset or fails, Token() returns an error and
\* calls neither refresh nor authenticate.
C14_CredentialSelection ==
    \A r \in Requests :
        TokenDone(r) =>
            /\ TokenSelection(r)
            /\ (~tLog[r][1].valid /\ tLog[r][1].tok.RefreshToken = "") =>
                  LET ops == TokenOps(r)
                      asked == authFunc # "nil" /\ Len(ops) >= 2
                               /\ ops[2] = "authfunc" /\ tLog[r][2].ok
                  IN  /\ ~Has(ops, "refresh")
                      /\ Has(ops, "authenticate") <=> asked
                      /\ asked => ops[3] = "authenticate"
                      /\ ~asked => tRet[r].err /\ ResetsBy(r) = <<>>
                      /\ authFunc = "nil" => ops = <<"check">>

\* r1 found no token and authenticated; r2, later, found that token expired
\* and refreshed it.
C14_Witness ==
    /\ TokenDone("r1") /\ TokenDone("r2")
    /\ TokenOps("r1") = <<"check", "authfunc", "authenticate", "reset">>
    /\ TokenOps("r2") = <<"check", "refresh", "reset">>
    /\ tLog["r2"][1].tok = tRet["r1"].tok
    /\ ~tRet["r2"].err

(***************************************************************************)
(* The transport.                                                          *)
(***************************************************************************)

\* What the transport did for r, and that with the context's end left out.
Steps(r) == SelectSeq(qLog[r], LAMBDA o : o # "ctx done")

\* C15: a request is admitted by the limiter before its token is asked for
\* and before it is sent; without a deadline it waits and never fails at
\* the limiter; when its context ends while it waits, it is not sent, no
\* token is asked for, and the round trip returns an error, once.
C15_TransportOrder ==
    \A r \in Requests :
        LET log == Steps(r)
        IN  /\ (tPc[r] # "idle" \/ tLog[r] # <<>> \/ Has(log, "token")) =>
                  Len(log) >= 2 /\ log[1] = "admit" /\ log[2] = "token"
            /\ qPc[r] = "send" => log = <<"admit", "token">>
            /\ Has(log, "send") => log = <<"admit", "token", "send">>
            /\ qPc[r] = "wait" => log = <<>>
            /\ qCtx[r] = "background" => ~Has(log, "limiter error")
            /\ Has(log, "limiter error") =>
                  /\ log = <<"limiter error">>
                  /\ qPc[r] = "done"
                  /\ tLog[r] = <<>> /\ tPc[r] = "idle"
            /\ (qLog[r] # <<>> /\ qLog[r][1] = "ctx done") =>
                  /\ qLog[r] \in {<<"ctx done">>, <<"ctx done", "limiter error">>}
                  /\ tLog[r] = <<>> /\ tPc[r] = "idle"
            /\ qPc[r] = "done" =>
                  log \in { <<"limiter error">>,
                            <<"admit", "token", "token error">>,
                            <<"admit", "token", "send">>,
                            <<"admit", "token", "send error">> }

\* r1 was sent and emptied the bucket; r2 waited behind it until its
\* context ended, and returned the limiter's error.
C15_Witness ==
    /\ qLog["r1"] = <<"admit", "token", "send">>
    /\ qLog["r2"] = <<"ctx done", "limiter error">>
    /\ qPc["r2"] = "done" /\ lim = 0

(***************************************************************************)
(* The wire codecs.                                                        *)
(***************************************************************************)

MsGranular(s) == \A i \in 1..Len(s.Samples) : s.Samples[i].Timestamp % 1000 = 0

\* An empty label mapping is the nil one.
Normalized(s) ==
    [s EXCEPT !.Metric.Labels = IF @.kv = {} THEN NilMap ELSE @]

\* C18: for every Series with timestamps at millisecond granularity,
\* MarshalJSON returns a document, and UnmarshalJSON of it gives the Series
\* back, an empty label mapping having become nil.
C18_SeriesRoundTrip ==
    /\ (cPc = "panic" /\ cIn # <<>> /\ MsGranular(cIn)) => ~cWire.panic
    /\ (cPc = "series_out" /\ MsGranular(cIn)) =>
          ~cOut.err /\ cOut.val = Normalized(cIn)

\* C19: for every document whose values and timestamps differ in length,
\* UnmarshalJSON returns an error.
C19_MismatchedArrays ==
    (cPc \in {"received_out", "panic"} /\ cIn = <<>>
        /\ Len(cWire.doc.values) # Len(cWire.doc.timestamps)) =>
        ~cOut.panic /\ cOut.err

\* C20: MarshalJSON of a Sample whose timestamp is a whole second writes
\* the timestamp in epoch seconds, and UnmarshalJSON of what it wrote gives
\* the Sample back.
C20_SampleSeconds ==
    (cPc \in {"sample_wire", "sample_out"} /\ cIn.Timestamp % 1000000 = 0) =>
        /\ cWire[1] = cIn.Timestamp \div 1000000
        /\ cPc = "sample_out" => cOut.val = cIn

\* The array's length is not 2, or its element 0 is no number, or its
\* element 1 is no string that parses as a number.
Malformed(els) ==
    \/ Len(els) # 2
    \/ els[1].t # "number"
    \/ els[2].t # "string"
    \/ ParseFloatFails(els[2].v)

\* C21: Sample.UnmarshalJSON returns an error for every array whose length
\* is not 2, whose element 0 is not a number, or whose element 1 is not a
\* string that parses as a number.
C21_SampleDecodeFailures ==
    (cPc = "sample_decoded" /\ cWire.t = "array" /\ Malformed(cWire.v)) => cOut.err

\* An array of a number and a string that is no number was refused.
C21_Witness ==
    /\ cPc = "sample_decoded"
    /\ cWire = JArray(<<JNum(1), JStr(Text)>>)
    /\ cOut.err

\* C22: the document MarshalJSON writes for a Series has values[i] and
\* timestamps[i], in milliseconds, of the i-th sample, the metric's name
\* under the key __name__ beside its labels, and the fields values and
\* timestamps exactly when there are samples.
C22_EncodingShape ==
    cPc = "series_wire" =>
        LET doc == cWire.doc
            n == Len(cIn.Samples)
        IN  /\ Len(doc.values) = n /\ Len(doc.timestamps) = n
            /\ \A i \in 1..n :
                  /\ doc.values[i] = cIn.Samples[i].Value
                  /\ doc.timestamps[i] = cIn.Samples[i].Timestamp \div 1000
            /\ <<"__name__", cIn.Metric.Name>> \in doc.metric
            /\ \A p \in cIn.Metric.Labels.kv : p[1] # "__name__" => p \in doc.metric
            /\ \A p \in doc.metric : p[1] = "__name__" \/ p \in cIn.Metric.Labels.kv
            /\ "values" \in doc.fields <=> n # 0
            /\ "timestamps" \in doc.fields <=> n # 0

(***************************************************************************)
(* Scales without a definition.                                            *)
(***************************************************************************)

\* C23: exportHistory with a scale that has no page size or no duration
\* dies before it asks the store or the upstream API for anything,
\* whatever the interval.
C23_ScaleErrorsImmediate ==
    (scale \notin PageSizeScales \/ scale \notin DurationScales) =>
        /\ opLog = <<>> /\ pusher = "none"
        /\ ePc \in {"query", "crashed"}

(***************************************************************************)
(* The page requests of a pass.                                            *)
(***************************************************************************)

\* C24: every page request of a pass has start < end <= until, whatever
\* the store answered; none has its start after its end.
C24_PageRequestsOrdered ==
    \A i \in 1..Len(pages) :
        pages[i].start < pages[i].end /\ pages[i].end <= until

(***************************************************************************)
(* The token source under contention.                                      *)
(***************************************************************************)

\* The requests whose call of Token() is between Lock and Unlock of c.mu.
InToken == {r \in Requests :
              tPc[r] \in {"load", "check", "refresh", "authfunc", "auth", "reset"}}

\* The calls of Refresh and Auth made for r.
RenewalsBy(r) ==
    SelectSeq(tLog[r], LAMBDA o : o.op \in {"refresh", "authenticate"})

\* C25: of the callers of Token() at most one is renewing the token at any
\* time; when the first to find it expired renews it, and the next caller
\* finds the new token valid, there was one Refresh or Auth and one Reset
\* in all and both callers got that token.
C25_SingleRefresh ==
    /\ Cardinality(InToken) <= 1
    /\ \A r \in InToken : tMu = r
    /\ \A a \in Requests : \A b \in Requests \ {a} :
          ( /\ TokenDone(a) /\ TokenDone(b)
            /\ ~tLog[a][1].valid /\ ~tRet[a].err
            /\ tLog[b][1].tok = tRet[a].tok /\ tLog[b][1].valid )
          => /\ Len(RenewalsBy(a)) + Len(RenewalsBy(b)) = 1
             /\ Len(aResets) = 1
             /\ aResets[1].by = a /\ aResets[1].new = tRet[a].tok
             /\ tRet[b] = [tok |-> tRet[a].tok, err |-> FALSE]

\* Both have returned: r1 with the token it got by Refresh, r2, which
\* found that token valid, with the same, after one Refresh and one Reset.
C25_Witness ==
    /\ TokenDone("r1") /\ TokenDone("r2")
    /\ TokenOps("r1") = <<"check", "refresh", "reset">>
    /\ TokenOps("r2") = <<"check">>
    /\ tLog["r2"][1].tok = tRet["r1"].tok
    /\ tRet["r2"] = tRet["r1"]
    /\ Len(aResets) = 1

\* A goroutine is inside a function called by its own Reset and, from
\* there, at the lock of a Load, Reset or Watch of the same Atom.
InWatcher(p) == aRix[p] # 0 /\ aPc[p] \in {"load", "reset", "watch"}

\* The Reset of p is past the swap with functions that all leave the Atom
\* alone.
ResetUntouched(p) ==
    /\ aPc[p] = "reset_notify"
    /\ \A k \in 1..Len(aWatchers) : WatcherCall(aWatchers[k]) = "none"

\* C26: a function that calls Load, Reset or Watch on the Atom from inside
\* Reset's loop stays at the lock of that call forever while its Reset
\* keeps the write lock and never returns; from then on nobody gets the
\* lock, so the value and the registered functions never change again and
\* every later Load, Reset and Watch waits; a Reset whose functions leave
\* the Atom alone returns, and a Reset that is called gets past its Lock
\* unless some goroutine is stuck in that way.
C26_WatcherReentry ==
    /\ \A p \in Writers :
           [](InWatcher(p) => [](InWatcher(p) /\ aMu.writer = p))
    /\ [][(\E p \in Writers : InWatcher(p)) =>
             /\ aMu' = aMu /\ aV' = aV /\ aWatchers' = aWatchers
             /\ \A q \in Writers :
                    aPc[q] \in {"load", "reset", "watch"} => aPc'[q] = aPc[q]]_watchVars
    /\ \A p \in Writers : ResetUntouched(p) ~> (aRix[p] = 0 /\ aPc[p] = "ret")
    /\ \A p \in Writers :
           (aPc[p] = "reset" /\ aRix[p] = 0)
               ~> (aPc[p] # "reset" \/ \E q \in Writers : InWatcher(q))

\* t1's Reset is stuck in a function that calls Load, with the write lock
\* held, and t2 waits at the RLock of a Load it called afterwards.
C26_Witness ==
    /\ InWatcher("t1") /\ aPc["t1"] = "load" /\ aMu.writer = "t1"
    /\ aPc["t2"] = "load"
    /\ \A p \in Writers : ~ENABLED AtomRLock(p) /\ ~ENABLED AtomLock(p)

====
